---------------------------- MODULE Spec2Model ----------------------------
(***************************************************************************)
(* Model of the SOSYS material automation core: the text normalizer, the  *)
(* similarity scorer, the catalog index, the vendor transform engine      *)
(* (proses_data_vendor) and the reconciliation pass                       *)
(* (update_material_codes).                                                *)
(*                                                                         *)
(* Strings are sequences of one-character strings, so that trimming, case  *)
(* folding, substring search and the similarity ratios are computed on the *)
(* characters as the code computes them.  Scores are exact rationals       *)
(* [num, den].                                                             *)
(***************************************************************************)
EXTENDS Integers, Sequences, FiniteSets, TLC

(***************************************************************************)
(* Characters and Python's str methods                                     *)
(***************************************************************************)
UPPER == <<"A", "B", "C", "D", "E", "F", "G", "H", "I", "J", "K", "L", "M",
           "N", "O", "P", "Q", "R", "S", "T", "U", "V", "W", "X", "Y", "Z">>

LOWER == <<"a", "b", "c", "d", "e", "f", "g", "h", "i", "j", "k", "l", "m",
           "n", "o", "p", "q", "r", "s", "t", "u", "v", "w", "x", "y", "z">>

\* the whitespace characters of the model (str.strip, regex \s)
WS == {" ", "\t"}

DIGITS == <<"0", "1", "2", "3", "4", "5", "6", "7", "8", "9">>

MaxOf(S) == CHOOSE x \in S : \A y \in S : y <= x

MinOf(S) == CHOOSE x \in S : \A y \in S : x <= y

lower_c(c) ==
  IF \E i \in 1..26 : UPPER[i] = c
    THEN LOWER[CHOOSE i \in 1..26 : UPPER[i] = c]
    ELSE c

upper_c(c) ==
  IF \E i \in 1..26 : LOWER[i] = c
    THEN UPPER[CHOOSE i \in 1..26 : LOWER[i] = c]
    ELSE c

\* str.lower()
str_lower(s) == [i \in 1..Len(s) |-> lower_c(s[i])]

\* str.upper()
str_upper(s) == [i \in 1..Len(s) |-> upper_c(s[i])]

\* str.strip()
str_strip(s) ==
  LET idx == {i \in 1..Len(s) : s[i] \notin WS}
  IN  IF idx = {} THEN <<>> ELSE SubSeq(s, MinOf(idx), MaxOf(idx))

\* re.sub(r'\s+', ' ', text): every run of whitespace becomes one space
RECURSIVE collapse_ws(_)
collapse_ws(s) ==
  IF s = <<>> THEN <<>>
  ELSE IF Head(s) \in WS
    THEN IF Len(s) > 1 /\ s[2] \in WS
           THEN collapse_ws(Tail(s))
           ELSE <<" ">> \o collapse_ws(Tail(s))
    ELSE <<Head(s)>> \o collapse_ws(Tail(s))

\* `sub in s` for strings
str_contains(s, sub) ==
  \E i \in 0..(Len(s) - Len(sub)) :
    \A k \in 1..Len(sub) : s[i + k] = sub[k]

(***************************************************************************)
(* Text normalizer and similarity scorer (processor.py)                    *)
(***************************************************************************)
\* normalize_text: every text of the model is a str, so the isinstance
\* guard of line 78 never returns ""
normalize_text(text) == collapse_ws(str_strip(str_lower(text)))

\* Row i of the longest-common-subsequence table from row i-1 (prev), both
\* over columns 0..Len(b) held at indices 1..Len(b)+1:
\* f[i,j] = max(f[i-1,j], max{f[i-1,j'-1] + 1 : j' <= j, a[i] = b[j']})
LcsRow(ai, b, prev) ==
  SubSeq([j \in 1..(Len(b) + 1) |->
            MaxOf({prev[j]} \cup {prev[jj] + 1 : jj \in {q \in 1..(j - 1) : b[q] = ai}})],
         1, Len(b) + 1)

RECURSIVE LcsRows(_, _, _, _)
LcsRows(a, b, i, prev) ==
  IF i > Len(a) THEN prev[Len(b) + 1]
  ELSE LET row == LcsRow(a[i], b, prev)
       IN  IF Len(row) = Len(b) + 1 THEN LcsRows(a, b, i + 1, row) ELSE 0

\* length of the longest common subsequence of a and b
LcsLen(a, b) == LcsRows(a, b, 1, [j \in 1..(Len(b) + 1) |-> 0])

\* rapidfuzz.fuzz.ratio(s1, s2) / 100: the normalized Indel similarity,
\* 2 * LCS / (len1 + len2); two empty strings score 100
fuzz_ratio(s1, s2) ==
  IF Len(s1) + Len(s2) = 0 THEN [num |-> 1, den |-> 1]
  ELSE [num |-> 2 * LcsLen(s1, s2), den |-> Len(s1) + Len(s2)]

\* number of equal characters of a[i..ahi] and b[j..bhi] read in step
RECURSIVE MatchLen(_, _, _, _, _, _)
MatchLen(a, b, i, j, ahi, bhi) ==
  IF i > ahi \/ j > bhi THEN 0
  ELSE IF a[i] # b[j] THEN 0
  ELSE 1 + MatchLen(a, b, i + 1, j + 1, ahi, bhi)

\* difflib.SequenceMatcher.find_longest_match on a[alo..ahi], b[blo..bhi]
\* (no junk: autojunk only acts on sequences of 200 or more elements): the
\* longest block, of those the one starting earliest in a, of those the one
\* starting earliest in b
find_longest_match(a, b, alo, ahi, blo, bhi) ==
  LET L == [i \in alo..ahi, j \in blo..bhi |-> MatchLen(a, b, i, j, ahi, bhi)]
      k == MaxOf({L[i, j] : i \in alo..ahi, j \in blo..bhi})
      bi == MinOf({i \in alo..ahi : \E j \in blo..bhi : L[i, j] = k})
      bj == MinOf({j \in blo..bhi : L[bi, j] = k})
  IN  [i |-> bi, j |-> bj, size |-> k]

\* sum of the sizes of SequenceMatcher.get_matching_blocks: the longest
\* block, then recursively the pieces to its left and to its right
RECURSIVE matching_size(_, _, _, _, _, _)
matching_size(a, b, alo, ahi, blo, bhi) ==
  IF alo > ahi \/ blo > bhi THEN 0
  ELSE LET m == find_longest_match(a, b, alo, ahi, blo, bhi)
       IN  IF m.size = 0 THEN 0
           ELSE m.size
                + matching_size(a, b, alo, m.i - 1, blo, m.j - 1)
                + matching_size(a, b, m.i + m.size, ahi, m.j + m.size, bhi)

\* SequenceMatcher(None, a, b).ratio() = 2.0 * matches / (len(a) + len(b))
SequenceMatcher_ratio(a, b) ==
  IF Len(a) + Len(b) = 0 THEN [num |-> 1, den |-> 1]
  ELSE [num |-> 2 * matching_size(a, b, 1, Len(a), 1, Len(b)),
        den |-> Len(a) + Len(b)]

\* comparisons of scores
ScoreGE(x, y) == x.num * y.den >= y.num * x.den

ScoreGT(x, y) == x.num * y.den > y.num * x.den

ScoreEQ(x, y) == x.num * y.den = y.num * x.den

ZeroScore == [num |-> 0, den |-> 1]

OneScore == [num |-> 1, den |-> 1]

\* a scorer without the test of line 112 for an empty normalized form
calculate_similarity_no_empty_test(rf, str1, str2) ==
  IF normalize_text(str1) = normalize_text(str2) THEN OneScore
  ELSE IF rf THEN fuzz_ratio(normalize_text(str1), normalize_text(str2))
  ELSE SequenceMatcher_ratio(normalize_text(str1), normalize_text(str2))

\* calculate_similarity(str1, str2) under the import outcome rf
\* (USE_RAPIDFUZZ)
calculate_similarity(rf, str1, str2) ==
  LET s1_norm == normalize_text(str1)
      s2_norm == normalize_text(str2)
  IN  IF s1_norm = <<>> \/ s2_norm = <<>> THEN ZeroScore
      ELSE IF s1_norm = s2_norm THEN OneScore
      ELSE IF rf THEN fuzz_ratio(s1_norm, s2_norm)
      ELSE SequenceMatcher_ratio(s1_norm, s2_norm)

(***************************************************************************)
(* Cells of a spreadsheet grid                                             *)
(*                                                                         *)
(* A cell is text, an integer or the missing-value marker NaN.             *)
(***************************************************************************)
TextCell(s) == [kind |-> "str", s |-> s, n |-> 0]

NumCell(n) == [kind |-> "num", s |-> <<>>, n |-> n]

NaNCell == [kind |-> "nan", s |-> <<>>, n |-> 0]

\* str(n) for an integer n >= 0
RECURSIVE nat_str(_)
nat_str(n) ==
  IF n < 10 THEN <<DIGITS[n + 1]>>
  ELSE nat_str(n \div 10) \o <<DIGITS[(n % 10) + 1]>>

\* str(cell) / Series.astype(str): NaN becomes the text "nan"
cell_str(c) ==
  IF c.kind = "str" THEN c.s
  ELSE IF c.kind = "nan" THEN <<"n", "a", "n">>
  ELSE IF c.n < 0 THEN <<"-">> \o nat_str(0 - c.n)
  ELSE nat_str(c.n)

digit_val(d) == (CHOOSE i \in 1..10 : DIGITS[i] = d) - 1

RECURSIVE digits_val(_)
digits_val(s) ==
  IF s = <<>> THEN 0
  ELSE 10 * digits_val(SubSeq(s, 1, Len(s) - 1)) + digit_val(s[Len(s)])

is_digits(s) ==
  /\ s # <<>>
  /\ \A i \in 1..Len(s) : \E k \in 1..10 : DIGITS[k] = s[i]

\* a coercion that fills with 1
to_numeric_fillna_one(c) ==
  IF c.kind = "num" THEN c.n
  ELSE IF c.kind = "str" /\ is_digits(c.s) THEN digits_val(c.s)
  ELSE 1

\* pd.to_numeric(column, errors='coerce').fillna(0) on one cell: a number
\* is kept, a text made of decimal digits is parsed, any other text and
\* NaN become 0
to_numeric_fillna(c) ==
  IF c.kind = "num" THEN c.n
  ELSE IF c.kind = "str" /\ is_digits(c.s) THEN digits_val(c.s)
  ELSE 0

\* pd.notna(value)
notna(c) == c.kind # "nan"

(***************************************************************************)
(* Catalog index (processor.py, load_master_from_dataframe)                *)
(*                                                                         *)
(* master_dict is a Python dict: here the sequence of its entries in       *)
(* insertion order, with unique names.                                     *)
(***************************************************************************)
sNAN == <<"n", "a", "n">>

sDASH == <<"-">>

HasKey(master, nama) == \E i \in 1..Len(master) : master[i].Nama = nama

KeyIndex(master, nama) == CHOOSE i \in 1..Len(master) : master[i].Nama = nama

\* master_dict[nama]
Entry(master, nama) == master[KeyIndex(master, nama)]

\* master_dict[nama_key] = {...}: a new key is appended, an existing key
\* keeps its place and takes the new value
dict_set(master, e) ==
  IF HasKey(master, e.Nama)
    THEN [master EXCEPT ![KeyIndex(master, e.Nama)] = e]
    ELSE Append(master, e)

\* a loop body that skips the name "nan" in small letters only
load_row_small_nan(master, row) ==
  LET nama_key == str_strip(cell_str(row.Nama))
  IN  IF nama_key = <<>> \/ nama_key = sNAN
        THEN master
        ELSE dict_set(master,
               [Nama |-> nama_key,
                Kode |-> IF notna(row.Kode) THEN str_strip(cell_str(row.Kode)) ELSE sDASH,
                Tipe |-> IF notna(row.Tipe) THEN str_strip(cell_str(row.Tipe)) ELSE sDASH])

\* the loop body of load_master_from_dataframe for one record (lines 236-245)
load_row(master, row) ==
  LET nama_key == str_strip(cell_str(row.Nama))
  IN  IF nama_key = <<>> \/ str_lower(nama_key) = sNAN
        THEN master
        ELSE dict_set(master,
               [Nama |-> nama_key,
                Kode |-> IF notna(row.Kode) THEN str_strip(cell_str(row.Kode)) ELSE sDASH,
                Tipe |-> IF notna(row.Tipe) THEN str_strip(cell_str(row.Tipe)) ELSE sDASH])

RECURSIVE load_rows(_, _)
load_rows(master, rows) ==
  IF rows = <<>> THEN master
  ELSE load_rows(load_row(master, Head(rows)), Tail(rows))

\* the column labels a record is read by
sNama == <<"N", "a", "m", "a">>

sKode == <<"K", "o", "d", "e">>

sTipe == <<"T", "i", "p", "e">>

\* a DataFrame of master records: the labels of its three columns, and
\* its records, each holding the cells of the first, second and third
\* column as Nama, Kode, Tipe
MasterFrame(columns, rows) == [columns |-> columns, rows |-> rows]

has_column(df_master, label) ==
  \E i \in 1..Len(df_master.columns) : df_master.columns[i] = label

\* whether the loop of lines 236-245 raises KeyError: row['Nama'] is read
\* on every record, row['Kode'] and row['Tipe'] on a record that is kept
build_raises(df_master) ==
  \/ df_master.rows # <<>> /\ ~has_column(df_master, sNama)
  \/ /\ load_rows(<<>>, df_master.rows) # <<>>
     /\ ~(has_column(df_master, sKode) /\ has_column(df_master, sTipe))

\* load_master_from_dataframe(df_master): the except branch of lines
\* 250-252 returns {} for whatever the loop raised
load_master_from_dataframe(df_master) ==
  IF build_raises(df_master) THEN <<>> ELSE load_rows(<<>>, df_master.rows)

(***************************************************************************)
(* Master upload (data_handlers.py, load_master_file, process_master_data)  *)
(*                                                                         *)
(* An uploaded file is [xlsx, readable, columns, rows]: whether its name   *)
(* ends with .xlsx, whether pandas can read it, and the table read.        *)
(***************************************************************************)
UploadedFile(xlsx, readable, columns, rows) ==
  [xlsx |-> xlsx, readable |-> readable, columns |-> columns, rows |-> rows]

REQUIRED_MASTER_COLUMNS == <<sNama, sKode, sTipe>>

\* lines 50-51: df_master.columns.str.strip()
stripped_columns(columns) == [i \in 1..Len(columns) |-> str_strip(columns[i])]

\* lines 56-63: the columns whose lower-cased label contains req_col.lower()
candidates(columns, req_col) ==
  {i \in 1..Len(columns) : str_contains(str_lower(columns[i]), str_lower(req_col))}

missing_cols(columns) ==
  {k \in 1..3 : candidates(columns, REQUIRED_MASTER_COLUMNS[k]) = {}}

\* col_mapping[req_col] = actual_col, the first candidate
col_mapping(columns, k) == columns[MinOf(candidates(columns, REQUIRED_MASTER_COLUMNS[k]))]

\* df_master.rename(columns=col_mapping) (line 69): a column labelled
\* req_col takes the label col_mapping[req_col], any other keeps its own
rename(columns) ==
  [i \in 1..Len(columns) |->
     IF \E k \in 1..3 : REQUIRED_MASTER_COLUMNS[k] = columns[i]
       THEN col_mapping(columns, CHOOSE k \in 1..3 : REQUIRED_MASTER_COLUMNS[k] = columns[i])
       ELSE columns[i]]

NoFrame == MasterFrame(<<>>, <<>>)

\* the error texts of a master upload
eCSV == "Failed to read CSV file with any supported encoding"

eLoading == "Error loading master file"

eMissing == "Missing required columns"

eKosong == "Database Master Material kosong atau tidak valid"

\* load_master_file(uploaded_file): (df_master, error), error "" for None
load_checked(columns, rows) ==
  IF missing_cols(columns) # {}
    THEN [df |-> NoFrame, error |-> eMissing]
    ELSE [df |-> MasterFrame(rename(columns), rows), error |-> ""]

load_master_file(uploaded_file) ==
  IF ~uploaded_file.readable
    THEN [df |-> NoFrame, error |-> IF uploaded_file.xlsx THEN eLoading ELSE eCSV]
    ELSE load_checked(stripped_columns(uploaded_file.columns), uploaded_file.rows)

\* a process_master_data that installs the catalog and leaves the caches
process_loaded_keep(l, built) ==
  IF l.error # ""
    THEN [master_dict |-> <<>>, none |-> TRUE, error |-> l.error,
          loaded |-> FALSE, df |-> NoFrame, built |-> <<>>, cleared |-> FALSE]
  ELSE IF built = <<>>
    THEN [master_dict |-> <<>>, none |-> TRUE, error |-> eKosong,
          loaded |-> TRUE, df |-> l.df, built |-> built, cleared |-> FALSE]
  ELSE [master_dict |-> built, none |-> FALSE, error |-> "",
        loaded |-> TRUE, df |-> l.df, built |-> built, cleared |-> FALSE]

\* a process_master_data that returns an empty catalog as a success
process_loaded_empty_ok(l, built) ==
  IF l.error # ""
    THEN [master_dict |-> <<>>, none |-> TRUE, error |-> l.error,
          loaded |-> FALSE, df |-> NoFrame, built |-> <<>>, cleared |-> FALSE]
  ELSE [master_dict |-> built, none |-> FALSE, error |-> "",
        loaded |-> TRUE, df |-> l.df, built |-> built, cleared |-> TRUE]

\* process_master_data(uploaded_file) after load_master_file returned l:
\* built is what load_master_from_dataframe returned, cleared whether
\* clear_fuzzy_cache() ran
process_loaded(l, built) ==
  IF l.error # ""
    THEN [master_dict |-> <<>>, none |-> TRUE, error |-> l.error,
          loaded |-> FALSE, df |-> NoFrame, built |-> <<>>, cleared |-> FALSE]
  ELSE IF built = <<>>
    THEN [master_dict |-> <<>>, none |-> TRUE, error |-> eKosong,
          loaded |-> TRUE, df |-> l.df, built |-> built, cleared |-> FALSE]
  ELSE [master_dict |-> built, none |-> FALSE, error |-> "",
        loaded |-> TRUE, df |-> l.df, built |-> built, cleared |-> TRUE]

process_after_load(l) ==
  process_loaded(l, IF l.error # "" THEN <<>> ELSE load_master_from_dataframe(l.df))

process_master_data(uploaded_file) == process_after_load(load_master_file(uploaded_file))

(***************************************************************************)
(* best_match (processor.py, fuzzy_match_material)                         *)
(***************************************************************************)
\* a sequence given as a function, evaluated once
Tup(f) == f \o <<>>

\* the returned tuple (matched_name, similarity_score); name_none and
\* score_none say which component is None
MatchResult(name, score) ==
  [name_none |-> FALSE, name |-> name, score_none |-> FALSE, score |-> score]

NoneNone ==
  [name_none |-> TRUE, name |-> <<>>, score_none |-> TRUE, score |-> ZeroScore]

\* index of the first maximum of a non-empty sequence of scores
FirstMax(scores) ==
  MinOf({i \in 1..Len(scores) :
           \A j \in 1..Len(scores) : ScoreGE(scores[i], scores[j])})

\* process.extractOne over the scores of the keys: the first key with the
\* best score is the result when that score reaches score_cutoff
extractOne(master, scores, score_cutoff) ==
  LET best == FirstMax(scores)
  IN  IF ScoreGE(scores[best], score_cutoff)
        THEN MatchResult(master[best].Nama, scores[best])
        ELSE NoneNone

\* FAST PATH (lines 160-174): process.extractOne(normalized_input,
\* master_dict.keys(), scorer=fuzz.ratio, score_cutoff=threshold * 100).
\* No processor is given, so each key is scored as it is stored, against the
\* normalized query.
fuzzy_rapidfuzz(material_name, master, threshold) ==
  extractOne(master,
             Tup([i \in 1..Len(master) |->
                    fuzz_ratio(normalize_text(material_name), master[i].Nama)]),
             threshold)

\* the loop of lines 178-192 over the scores of the keys: best_score starts
\* at 0.0 and a key replaces the best only with a strictly greater score
best_of_loop(master, scores, threshold) ==
  LET best == FirstMax(scores)
  IN  IF ~ScoreGT(scores[best], ZeroScore)
        THEN IF ScoreGE(ZeroScore, threshold)
               THEN [name_none |-> TRUE, name |-> <<>>,
                     score_none |-> FALSE, score |-> ZeroScore]
               ELSE NoneNone
        ELSE IF ScoreGE(scores[best], threshold)
               THEN MatchResult(master[best].Nama, scores[best])
               ELSE NoneNone

\* SLOW PATH (lines 176-192)
fuzzy_difflib(material_name, master, threshold) ==
  best_of_loop(master,
               Tup([i \in 1..Len(master) |->
                      calculate_similarity(FALSE, material_name, master[i].Nama)]),
               threshold)

\* fuzzy_match_material(material_name, master_dict, threshold) under the
\* import outcome rf (USE_RAPIDFUZZ)
fuzzy_match_material(rf, material_name, master, threshold) ==
  IF material_name = <<>> \/ master = <<>> THEN NoneNone
  ELSE IF rf THEN fuzzy_rapidfuzz(material_name, master, threshold)
  ELSE fuzzy_difflib(material_name, master, threshold)

\* fuzzy_threshold = 0.8 (processor.py line 340, data_handlers.py line 135)
fuzzy_threshold == [num |-> 4, den |-> 5]

(***************************************************************************)
(* Column labels (processor.py, huruf_ke_angka; config.py, KOLOM_OPTIONS)  *)
(***************************************************************************)
\* the ASCII characters of code points 32..95, in order
ASCII ==
  <<" ", "!", "\"", "#", "$", "%", "&", "'", "(", ")", "*", "+",
    ",", "-", ".", "/", "0", "1", "2", "3", "4", "5", "6", "7",
    "8", "9", ":", ";", "<", "=", ">", "?", "@", "A", "B", "C",
    "D", "E", "F", "G", "H", "I", "J", "K", "L", "M", "N", "O",
    "P", "Q", "R", "S", "T", "U", "V", "W", "X", "Y", "Z", "[",
    "\\", "]", "^", "_">>

\* ord(c), for a tab, the characters above and the lower-case letters
ord_c(c) ==
  IF c = "\t" THEN 9
  ELSE IF \E i \in 1..26 : LOWER[i] = c
       THEN 96 + (CHOOSE i \in 1..26 : LOWER[i] = c)
       ELSE 31 + (CHOOSE i \in 1..Len(ASCII) : ASCII[i] = c)

\* the loop of lines 216-218 on the characters not yet read
RECURSIVE huruf_loop(_, _)
huruf_loop(huruf, angka) ==
  IF huruf = <<>> THEN angka
  ELSE huruf_loop(Tail(huruf), angka * 26 + (ord_c(Head(huruf)) - ord_c("A") + 1))

\* a conversion that reads the label as it was given
huruf_ke_angka_as_given(huruf) == huruf_loop(huruf, 0) - 1

\* huruf_ke_angka(huruf) for a str: the function has no raise and no check
\* of its input, it returns an int for every str
huruf_ke_angka(huruf) == huruf_loop(str_strip(str_upper(huruf)), 0) - 1

\* KOLOM_HURUF, KOLOM_OPTIONS (config.py lines 33-35)
KOLOM_HURUF == [i \in 1..26 |-> <<UPPER[i]>>]

KOLOM_OPTIONS == KOLOM_HURUF \o [i \in 1..26 |-> <<"A">> \o KOLOM_HURUF[i]]

(***************************************************************************)
(* Column mapping and its validation (processor.py, validate_config)       *)
(*                                                                         *)
(* A mapping value is [int, val]: int says whether it is a plain Python    *)
(* int (isinstance(value, int)); a value that is not, here a               *)
(* numpy.int64, is still a position for DataFrame.iloc.                    *)
(***************************************************************************)
ColumnKeys == {"c_uraian", "c_mat", "c_psg", "c_bkr", "c_satuan", "c_total"}

PyInt(v) == [int |-> TRUE, val |-> v]

NpInt(v) == [int |-> FALSE, val |-> v]

\* validate_config(config, df_shape): only plain ints are looked at
validate_config(config, ncols) ==
  LET max_col_index == ncols - 1
  IN  \A key \in DOMAIN config :
        config[key].int =>
          ~(config[key].val > max_col_index) /\ ~(config[key].val < 0)

\* validate_column_selection(config, df_shape) (data_handlers.py): only the
\* greatest value is compared, with the last column
validate_column_selection(config, ncols) ==
  LET max_col_index == ncols - 1
      max_col == MaxOf({config[key].val : key \in DOMAIN config})
  IN  ~(max_col > max_col_index)

\* df_v.iloc[:, c]: positions -ncols..ncols-1 exist (a negative position
\* counts from the last column), any other raises IndexError
iloc_ok(c, ncols) == (0 - ncols) <= c.val /\ c.val < ncols

iloc_col(c, ncols) == IF c.val < 0 THEN ncols + c.val ELSE c.val

\* the column reads of lines 344-349, in the order of the dict display
ReadOrder == <<"c_uraian", "c_mat", "c_psg", "c_bkr", "c_satuan", "c_total">>

\* the reads attempted before the first that raises, that one included
column_reads(config, ncols) ==
  LET bad == {i \in 1..6 : ~iloc_ok(config[ReadOrder[i]], ncols)}
      last == IF bad = {} THEN 6 ELSE MinOf(bad)
  IN  [i \in 1..last |->
         [key |-> ReadOrder[i], off |-> config[ReadOrder[i]].val,
          raised |-> ~iloc_ok(config[ReadOrder[i]], ncols)]]

(***************************************************************************)
(* Vendor transform engine (processor.py, proses_data_vendor)              *)
(***************************************************************************)
sTOTAL == <<"T", "O", "T", "A", "L">>

sPLN == <<"P", "L", "N">>

\* one row of df_work (lines 343-350)
work_row(row, config, ncols) ==
  LET cell(key) == row[iloc_col(config[key], ncols) + 1]
  IN  [nama    |-> str_strip(cell_str(cell("c_uraian"))),
       vol_mat |-> to_numeric_fillna(cell("c_mat")),
       vol_psg |-> to_numeric_fillna(cell("c_psg")),
       vol_bkr |-> to_numeric_fillna(cell("c_bkr")),
       satuan  |-> str_upper(str_strip(cell_str(cell("c_satuan")))),
       total   |-> to_numeric_fillna(cell("c_total"))]

\* a mask that keeps a total of 0
mask_total_nonneg(w) ==
  /\ w.total >= 0
  /\ str_lower(w.nama) # sNAN
  /\ ~str_contains(str_upper(w.nama), sTOTAL)

\* mask_valid (lines 353-357); str.contains('TOTAL', case=False) ignores
\* the letter case of the name
mask_valid(w) ==
  /\ w.total > 0
  /\ str_lower(w.nama) # sNAN
  /\ ~str_contains(str_upper(w.nama), sTOTAL)

NoScore == [none |-> TRUE, score |-> ZeroScore]

NoName == [none |-> TRUE, name |-> <<>>]

\* lines 387-396 of lookup_with_fuzzy: the Series for the tuple m that
\* fuzzy_match_material returned
fuzzy_series(master, m) ==
  IF ~m.name_none /\ m.name # <<>>
    THEN [Kode |-> Entry(master, m.name).Kode,
          Tipe |-> Entry(master, m.name).Tipe,
          Match_Score |-> [none |-> FALSE,
                           score |-> [num |-> m.score.num * 100,
                                      den |-> m.score.den]],
          Matched_With |-> [none |-> FALSE, name |-> m.name],
          fuzzy_called |-> TRUE]
    ELSE [Kode |-> sDASH, Tipe |-> sDASH,
          Match_Score |-> NoScore, Matched_With |-> NoName,
          fuzzy_called |-> TRUE]

\* a lookup that asks fuzzy_match_material first and the exact key second
lookup_fuzzy_first(rf, master, nama) ==
  IF fuzzy_match_material(rf, nama, master, fuzzy_threshold).name_none
    THEN IF HasKey(master, nama)
           THEN [Kode |-> Entry(master, nama).Kode, Tipe |-> Entry(master, nama).Tipe,
                 Match_Score |-> NoScore, Matched_With |-> NoName,
                 fuzzy_called |-> TRUE]
           ELSE fuzzy_series(master, NoneNone)
    ELSE fuzzy_series(master, fuzzy_match_material(rf, nama, master, fuzzy_threshold))

\* lookup_with_fuzzy(nama) (lines 369-396): the four values of the returned
\* Series, and whether fuzzy_match_material was called
lookup_with_fuzzy(rf, master, nama) ==
  IF HasKey(master, nama)
    THEN [Kode |-> Entry(master, nama).Kode, Tipe |-> Entry(master, nama).Tipe,
          Match_Score |-> NoScore, Matched_With |-> NoName,
          fuzzy_called |-> FALSE]
    ELSE fuzzy_series(master, fuzzy_match_material(rf, nama, master, fuzzy_threshold))

\* lines 404-408
jumlah_gudang(satuan, vol_mat) == IF satuan = sPLN THEN vol_mat ELSE 0

\* an ordered quantity that ignores the unit
jumlah_dipesan_any_unit(satuan, vol_mat) == vol_mat

\* lines 410-414
jumlah_dipesan(satuan, vol_mat) == IF satuan # sPLN THEN vol_mat ELSE 0

\* one row of df_filtered with the four lookup columns l (line 399) and
\* the PLN/Tunai columns (lines 404-414)
with_lookup(w, l) ==
  [nama |-> w.nama, vol_mat |-> w.vol_mat, vol_psg |-> w.vol_psg,
   vol_bkr |-> w.vol_bkr, satuan |-> w.satuan, total |-> w.total,
   Kode_Material |-> l.Kode, Tipe_Material |-> l.Tipe,
   Match_Score |-> l.Match_Score, Matched_With |-> l.Matched_With,
   fuzzy_called |-> l.fuzzy_called,
   Jumlah_Material_Gudang |-> jumlah_gudang(w.satuan, w.vol_mat),
   Jumlah_Material_Dipesan |-> jumlah_dipesan(w.satuan, w.vol_mat)]

filtered_row(rf, master, w) == with_lookup(w, lookup_with_fuzzy(rf, master, w.nama))

\* a result row whose Referensi Jumlah is the material volume
result_row_volume(f) ==
  [Kode_Material |-> f.Kode_Material,
   Nama_Material |-> f.nama,
   Tipe_Material |-> f.Tipe_Material,
   Referensi_Jumlah |-> f.vol_mat,
   Jumlah_Material_Gudang |-> f.Jumlah_Material_Gudang,
   Jumlah_Material_Dipesan |-> f.Jumlah_Material_Dipesan,
   Jumlah_Pasang |-> f.vol_psg,
   Jumlah_Bongkar |-> f.vol_bkr,
   none_cells |-> {}]

\* one row of the returned df_hasil (lines 419-433): the eight SOSYS
\* columns, without the two fuzzy matching columns; none_cells names the
\* numeric cells of the row that hold None, none when it is returned
result_row(f) ==
  [Kode_Material |-> f.Kode_Material,
   Nama_Material |-> f.nama,
   Tipe_Material |-> f.Tipe_Material,
   Referensi_Jumlah |-> 1,
   Jumlah_Material_Gudang |-> f.Jumlah_Material_Gudang,
   Jumlah_Material_Dipesan |-> f.Jumlah_Material_Dipesan,
   Jumlah_Pasang |-> f.vol_psg,
   Jumlah_Bongkar |-> f.vol_bkr,
   none_cells |-> {}]

\* a run that ends without rows: stage is where it ended, exc the exception
\* raised there ("" for none)
Ended(stage, exc, is_valid, reads) ==
  [table |-> <<>>, df_filtered |-> <<>>, stage |-> stage, exc |-> exc,
   is_valid |-> is_valid, reads |-> reads, escaped |-> exc # ""]

\* lines 419-452: the returned table, built from df_filtered
susun_hasil(df_filtered, reads) ==
  [table |-> [i \in 1..Len(df_filtered) |-> result_row(df_filtered[i])],
   df_filtered |-> df_filtered,
   stage |-> "done", exc |-> "", is_valid |-> TRUE,
   reads |-> reads, escaped |-> FALSE]

\* lines 359-452: df_masked is df_work[mask_valid]
lookup_dan_susun(rf, master, df_masked, reads) ==
  IF df_masked = <<>> THEN Ended("filter", "", TRUE, reads)
  ELSE susun_hasil(Tup([i \in 1..Len(df_masked) |->
                          filtered_row(rf, master, df_masked[i])]),
                   reads)

\* lines 343-452: reads are the column reads of the projection
proyeksi_dan_filter(rf, df, master, config, reads) ==
  IF reads[Len(reads)].raised THEN Ended("project", "IndexError", TRUE, reads)
  ELSE lookup_dan_susun(rf, master,
         SelectSeq(Tup([i \in 1..Len(df.rows) |->
                          work_row(df.rows[i], config, df.ncols)]),
                   mask_valid),
         reads)

\* the body of the try block (lines 327-452)
proses_body(rf, df, master, config) ==
  IF ~df.isdf THEN Ended("shape", "AttributeError", FALSE, <<>>)
  ELSE IF ~validate_config(config, df.ncols) THEN Ended("invalid", "", FALSE, <<>>)
  ELSE IF ~(ColumnKeys \subseteq DOMAIN config) THEN Ended("extract", "KeyError", TRUE, <<>>)
  ELSE proyeksi_dan_filter(rf, df, master, config, column_reads(config, df.ncols))

\* a handler that catches KeyError only
except_KeyError(b) ==
  IF b.exc = "KeyError"
    THEN [b EXCEPT !.table = <<>>, !.df_filtered = <<>>, !.escaped = FALSE]
    ELSE b

\* `except Exception` of lines 454-456: whatever the body raised is caught
\* and pd.DataFrame() is returned
except_Exception(b) ==
  IF b.exc # ""
    THEN [b EXCEPT !.table = <<>>, !.df_filtered = <<>>, !.escaped = FALSE]
    ELSE b

\* proses_data_vendor(df_v, master_dict, config)
proses_data_vendor(rf, df, master, config) ==
  except_Exception(proses_body(rf, df, master, config))

(***************************************************************************)
(* Summary (processor.py, generate_summary)                                *)
(***************************************************************************)
\* (df[col] ...).sum(): the number of rows that pass the test
count_rows(df, Test(_)) == Cardinality({i \in 1..Len(df) : Test(df[i])})

\* 'Match Score' in df_hasil.columns
has_match_score(df) == \A i \in 1..Len(df) : "Match_Score" \in DOMAIN df[i]

\* line 482: the rows whose Match Score is not NaN when the table has
\* the column, 0 when it has not
fuzzy_matched_of(df) ==
  IF has_match_score(df)
    THEN count_rows(df, LAMBDA row : ~row.Match_Score.none)
    ELSE 0

\* generate_summary(df_hasil): the seven counts
generate_summary(df) ==
  IF df = <<>>
    THEN [returned |-> TRUE, total_items |-> 0, matched |-> 0, unmatched |-> 0,
          fuzzy_matched |-> 0, exact_matched |-> 0, pln_items |-> 0, tunai_items |-> 0]
    ELSE [returned |-> TRUE,
          total_items |-> Len(df),
          matched |-> count_rows(df, LAMBDA row : row.Kode_Material # sDASH),
          exact_matched |-> count_rows(df, LAMBDA row : row.Kode_Material # sDASH)
                              - fuzzy_matched_of(df),
          fuzzy_matched |-> fuzzy_matched_of(df),
          unmatched |-> count_rows(df, LAMBDA row : row.Kode_Material = sDASH),
          pln_items |-> count_rows(df, LAMBDA row : row.Jumlah_Material_Gudang > 0),
          tunai_items |-> count_rows(df, LAMBDA row : row.Jumlah_Material_Dipesan > 0)]

(***************************************************************************)
(* Reconciliation pass (data_handlers.py, update_material_codes)           *)
(***************************************************************************)
\* a skip test that compares with "nan" as typed
skip_row_exact_case(row) ==
  str_strip(row.Nama_Material) = <<>> \/ str_strip(row.Nama_Material) = sNAN

\* lines 123-127: the rows the loop skips
skip_row(row) ==
  LET nama_input == str_strip(row.Nama_Material)
  IN  nama_input = <<>> \/ str_lower(nama_input) = sNAN

\* lines 137-142: the target for the tuple m that fuzzy_match_material
\* returned
fuzzy_target(master, m) ==
  IF ~m.name_none /\ m.name # <<>>
    THEN [Kode |-> Entry(master, m.name).Kode,
          Tipe |-> Entry(master, m.name).Tipe, fuzzy_called |-> TRUE]
    ELSE [Kode |-> sDASH, Tipe |-> sDASH, fuzzy_called |-> TRUE]

\* a target taken from the exact key only
target_of_exact_only(rf, master, nama_input) ==
  IF HasKey(master, nama_input)
    THEN [Kode |-> Entry(master, nama_input).Kode,
          Tipe |-> Entry(master, nama_input).Tipe, fuzzy_called |-> FALSE]
    ELSE [Kode |-> sDASH, Tipe |-> sDASH, fuzzy_called |-> FALSE]

\* lines 129-142: (target_kode, target_tipe) of a row that is not skipped,
\* and whether fuzzy_match_material was called
target_of(rf, master, nama_input) ==
  IF HasKey(master, nama_input)
    THEN [Kode |-> Entry(master, nama_input).Kode,
          Tipe |-> Entry(master, nama_input).Tipe, fuzzy_called |-> FALSE]
    ELSE fuzzy_target(master,
           fuzzy_match_material(rf, nama_input, master, fuzzy_threshold))

\* a comparison that always finds a difference
row_always_differs(row, t) == TRUE

\* lines 145-148: whether the row is overwritten
row_differs(row, t) ==
  row.Kode_Material # t.Kode \/ row.Tipe_Material # t.Tipe

\* a write that also stores the trimmed name
write_target_trimmed(row, t) ==
  IF row_differs(row, t)
    THEN [row |-> [row EXCEPT !.Kode_Material = t.Kode, !.Tipe_Material = t.Tipe,
                              !.Nama_Material = str_strip(row.Nama_Material)],
          written |-> TRUE, fuzzy_called |-> t.fuzzy_called]
    ELSE [row |-> row, written |-> FALSE, fuzzy_called |-> t.fuzzy_called]

\* lines 145-148 on one row with its target t
write_target(row, t) ==
  IF row_differs(row, t)
    THEN [row |-> [row EXCEPT !.Kode_Material = t.Kode, !.Tipe_Material = t.Tipe],
          written |-> TRUE, fuzzy_called |-> t.fuzzy_called]
    ELSE [row |-> row, written |-> FALSE, fuzzy_called |-> t.fuzzy_called]

\* the loop of lines 122-148 on one row: the row after it, whether it was
\* written, whether fuzzy_match_material was called
update_row(rf, master, row) ==
  IF skip_row(row) THEN [row |-> row, written |-> FALSE, fuzzy_called |-> FALSE]
  ELSE write_target(row, target_of(rf, master, str_strip(row.Nama_Material)))

\* update_material_codes(edited_df, master_dict): the updated table, the
\* flag perubahan_terjadi, and the rows for which fuzzy_match_material ran
collect_rows(u) ==
  [df |-> [i \in 1..Len(u) |-> u[i].row],
   perubahan_terjadi |-> \E i \in 1..Len(u) : u[i].written,
   fuzzy_rows |-> {i \in 1..Len(u) : u[i].fuzzy_called}]

update_material_codes(rf, edited_df, master) ==
  collect_rows(Tup([i \in 1..Len(edited_df) |-> update_row(rf, master, edited_df[i])]))

(***************************************************************************)
(* Inputs of the model                                                     *)
(***************************************************************************)
\* bounds
MaxRows == 2

MaxOffset == 6

\* master uploads in a session
MaxUploads == 2

\* letters in a column label
MaxLetters == 2

\* texts
sFOO == <<"F", "O", "O">>

sfoo == <<"f", "o", "o">>

sFoo == <<"F", "o", "o">>

sfoo_padded == <<" ", "f", "o", "o", " ">>

sKABEL_KEY == <<"K", "A", "B", "E", "L", " ", "N", "Y", "Y", " ", "2", "x", "2", ".", "5">>

skabel_vendor == <<"k", "a", "b", "e", "l", " ", "n", "y", "y", " ", "2", "x", "2", ",", "5">>

sUNKNOWN_ITEM == <<"U", "N", "K", "N", "O", "W", "N", " ", "I", "T", "E", "M">>

sTOTAL_BIAYA == <<"T", "O", "T", "A", "L", " ", "B", "I", "A", "Y", "A">>

sSub_total == <<"S", "u", "b", " ", "t", "o", "t", "a", "l">>

sNaN_mixed == <<"N", "a", "N">>

sX == <<"X">>

sY == <<"Y">>

sZ == <<"Z">>

sK1 == <<"K", "1">>

sK2 == <<"K", "2">>

sK9 == <<"K", "9">>

sT1 == <<"T", "1">>

sT2 == <<"T", "2">>

sC001_padded == <<" ", "C", "0", "0", "1", " ">>

sTYPE_A == <<"T", "Y", "P", "E", "-", "A">>

\* a vendor row of six cells: name, MAT, PSG, BKR, unit, total
VendorRow(name, mat, psg, bkr, satuan, total) == <<name, mat, psg, bkr, satuan, total>>

rX == VendorRow(TextCell(sX), NumCell(1), NumCell(0), NumCell(0),
                TextCell(sPLN), NumCell(0))

rY == VendorRow(TextCell(sY), NumCell(10), NumCell(2), NumCell(0),
                TextCell(<<" ", "p", "l", "n", " ">>), NumCell(5))

rTOTAL == VendorRow(TextCell(sTOTAL_BIAYA), NumCell(4), NumCell(0), NumCell(0),
                    TextCell(sPLN), NumCell(0 - 1))

rZ == VendorRow(TextCell(sZ), NumCell(3), NumCell(0), NumCell(1),
                TextCell(<<"T", "U", "N", "A", "I">>), NumCell(10))

rKabel == VendorRow(TextCell(skabel_vendor), NumCell(10), NumCell(0), NumCell(0),
                    TextCell(sPLN), NumCell(500000))

rUnknown == VendorRow(TextCell(sUNKNOWN_ITEM), NumCell(0), NumCell(1), NumCell(0),
                      NaNCell, NumCell(100))

rFOO == VendorRow(TextCell(sFOO), TextCell(<<"a", "b", "c">>), NumCell(0), NumCell(2),
                  TextCell(<<"T", "u", "n", "a", "i">>), TextCell(<<"7">>))

rSub == VendorRow(TextCell(sSub_total), NumCell(5), NumCell(0), NumCell(0),
                  TextCell(sPLN), NumCell(9))

rNaN == VendorRow(NaNCell, NumCell(2), NumCell(0), NumCell(0),
                  TextCell(sPLN), NumCell(4))

rfoo == VendorRow(TextCell(sfoo_padded), NumCell(6), NumCell(0), NumCell(0),
                  TextCell(sPLN), NumCell(2))

\* a row whose three volume cells are missing, text and empty
rVolumes == VendorRow(TextCell(sZ), NaNCell, TextCell(<<"a", "b", "c">>), TextCell(<<>>),
                      TextCell(sPLN), NumCell(3))

\* a row whose total cell is text
rNoTotal == VendorRow(TextCell(sX), NumCell(2), NumCell(1), NumCell(0),
                      TextCell(sPLN), TextCell(<<"a", "b", "c">>))

RowPool == {rX, rY, rZ, rKabel, rUnknown, rFOO, rSub, rNaN, rfoo, rVolumes, rNoTotal}

\* row k of the grid of a session
SessionRow(k) == <<rFOO, rKabel, rY>>[((k - 1) % 3) + 1]

\* the rows of the filtering example: totals [0, 5, -1, 10]
ExampleRows == <<rX, rY, rTOTAL, rZ>>

SeqsUpTo(S, n) == UNION {[1..k -> S] : k \in 0..n}

Grid(ncols, rows) == [isdf |-> TRUE, ncols |-> ncols, rows |-> rows]

\* df_v = None
NoGrid == [isdf |-> FALSE, ncols |-> 0, rows |-> <<>>]

BaseConfig ==
  [c_uraian |-> PyInt(0), c_mat |-> PyInt(1), c_psg |-> PyInt(2),
   c_bkr |-> PyInt(3), c_satuan |-> PyInt(4), c_total |-> PyInt(5)]

\* a mapping for a grid of three columns: name, quantity, unit
NarrowConfig ==
  [c_uraian |-> PyInt(0), c_mat |-> PyInt(1), c_psg |-> PyInt(1),
   c_bkr |-> PyInt(1), c_satuan |-> PyInt(2), c_total |-> PyInt(1)]

NarrowRow == <<TextCell(sY), NumCell(5), TextCell(sPLN)>>

MappingValues == {[int |-> b, val |-> v] : b \in BOOLEAN, v \in (0 - 1)..MaxOffset}

Without(f, key) == [k \in (DOMAIN f) \ {key} |-> f[k]]

\* a base mapping, the same with one value replaced, or with one key missing
ConfigVariants(base) ==
  {base}
    \cup {[base EXCEPT ![key] = v] : key \in ColumnKeys, v \in MappingValues}
    \cup {Without(base, key) : key \in ColumnKeys}

\* master files: records Nama, Kode, Tipe
MasterRecord(nama, kode, tipe) == [Nama |-> nama, Kode |-> kode, Tipe |-> tipe]

MasterFiles ==
  { <<MasterRecord(TextCell(sFOO), TextCell(sK1), TextCell(sT1)),
      MasterRecord(TextCell(sfoo), TextCell(sK2), TextCell(sT2))>>,
    <<MasterRecord(TextCell(sKABEL_KEY), TextCell(sC001_padded), TextCell(sTYPE_A)),
      MasterRecord(NaNCell, TextCell(sK9), TextCell(sT2)),
      MasterRecord(TextCell(sY), NumCell(7), TextCell(sT1))>>,
    <<MasterRecord(TextCell(sFOO), TextCell(sK9), TextCell(sT2)),
      MasterRecord(TextCell(sFOO), NaNCell, TextCell(sT1))>> }

Catalogs ==
  {load_master_from_dataframe(MasterFrame(REQUIRED_MASTER_COLUMNS, f)) : f \in MasterFiles}

\* the names a user types into the table
EditNames == {sfoo_padded, sFOO, sNaN_mixed, sNAN, sUNKNOWN_ITEM, <<>>}

QueryNames == {sFOO, sFoo, sfoo_padded, skabel_vendor, sUNKNOWN_ITEM, sY, <<>>}

Thresholds == {[num |-> 1, den |-> 2], fuzzy_threshold, [num |-> 1, den |-> 1]}

\* the master files a user uploads
sNama_padded == <<" ", "N", "a", "m", "a", " ">>

sNama_Material == <<"N", "a", "m", "a", " ", "M", "a", "t", "e", "r", "i", "a", "l">>

snama == <<"n", "a", "m", "a">>

skode == <<"k", "o", "d", "e">>

stipe == <<"t", "i", "p", "e">>

sHarga == <<"H", "a", "r", "g", "a">>

sNAN_upper == <<"N", "A", "N">>

sBlank == <<" ", " ">>

sFOO_padded == <<" ", "F", "O", "O", " ">>

\* records none of which is kept
BlankRecords ==
  <<MasterRecord(NaNCell, TextCell(sK1), TextCell(sT1)),
    MasterRecord(TextCell(sNAN_upper), TextCell(sK2), TextCell(sT2)),
    MasterRecord(TextCell(sBlank), TextCell(sK9), TextCell(sT1))>>

\* records with a name in capitals that reads "NAN", a blank name, and a
\* name that occurs twice once trimmed
MixedRecords ==
  <<MasterRecord(TextCell(sFOO), TextCell(sK1), TextCell(sT1)),
    MasterRecord(TextCell(sNAN_upper), TextCell(sK9), TextCell(sT2)),
    MasterRecord(TextCell(sBlank), TextCell(sK9), TextCell(sT2)),
    MasterRecord(TextCell(sKABEL_KEY), TextCell(sC001_padded), NaNCell),
    MasterRecord(TextCell(sFOO_padded), TextCell(sK2), TextCell(sT2))>>

UploadFiles ==
  {UploadedFile(TRUE, TRUE, REQUIRED_MASTER_COLUMNS, f) : f \in MasterFiles}
    \cup
  { UploadedFile(FALSE, TRUE, <<sNama_padded, sKode, sTipe>>, MixedRecords),
    UploadedFile(TRUE, TRUE, <<snama, skode, stipe>>, MixedRecords),
    UploadedFile(TRUE, TRUE, <<sNama_Material, sKode, sTipe>>, MixedRecords),
    UploadedFile(TRUE, TRUE, REQUIRED_MASTER_COLUMNS, BlankRecords),
    UploadedFile(FALSE, TRUE, REQUIRED_MASTER_COLUMNS, <<>>),
    UploadedFile(TRUE, TRUE, <<sNama, sKode, sHarga>>, MixedRecords),
    UploadedFile(TRUE, FALSE, <<>>, <<>>),
    UploadedFile(FALSE, FALSE, <<>>, <<>>) }

\* column labels: every label of up to MaxLetters capital letters, the
\* labels of KOLOM_OPTIONS in small letters and between white space, and
\* texts that are no label
LetterLabels == UNION {[1..n -> {UPPER[i] : i \in 1..26}] : n \in 1..MaxLetters}

OptionLabels == {KOLOM_OPTIONS[i] : i \in 1..Len(KOLOM_OPTIONS)}

NoLabels ==
  {<<>>, <<" ">>, <<"1">>, <<"A", "1">>, <<"A", "-">>, <<"A", " ", "B">>, <<"+">>}

Labels ==
  LetterLabels
    \cup {str_lower(l) : l \in OptionLabels}
    \cup {<<" ">> \o l \o <<"\t">> : l \in OptionLabels}
    \cup {<<"a", "B">>}
    \cup NoLabels

\* the texts calculate_similarity is asked about
stide == <<"t", "i", "d", "e">>

sdiet == <<"d", "i", "e", "t">>

sab_cab == <<"a", "b", " ", "c", "a", "b">>

scab_ab == <<"c", "a", "b", " ", "a", "b">>

sFoo_Bar == <<"F", "o", "o", " ", " ", "B", "a", "r">>

sfoo_bar == <<"f", "o", "o", " ", "b", "a", "r">>

ScoreTexts ==
  {stide, sdiet, sab_cab, scab_ab, sFoo_Bar, sfoo_bar, sFOO, sfoo_padded, sBlank, <<>>}

(***************************************************************************)
(* State                                                                   *)
(***************************************************************************)
VARIABLES
  USE_RAPIDFUZZ,  \* processor.py lines 9-14: whether rapidfuzz was imported
  master_dict,    \* the catalog index (st.session_state['master_dict'], <<>> for None)
  df_v,           \* the vendor grid
  config,         \* the column mapping
  out,            \* what the last proses_data_vendor call did and returned
  df_hasil,       \* the result table held by the caller
  recon,          \* the update_material_codes call since the last edit: the table and catalog it was given, its flag
  last,           \* the last operation: "init", "upload", "proses", "btn", "edit", "update", "match", "huruf", "score"
  passes,         \* update_material_codes calls since the last other operation (0, 1, 2 = two or more)
  q_name,         \* fuzzy_match_material called on its own: material_name
  q_threshold,    \*   threshold
  q_result,       \*   the returned tuple
  normalize_text_cache,        \* the lru_cache of normalize_text: entries [text, val, epoch]
  calculate_similarity_cache,  \* the lru_cache of calculate_similarity: entries [str1, str2, val, epoch]
  epoch,          \* how many catalogs were installed so far; an entry carries the epoch it was written in
  master_uploaded,\* st.session_state['master_uploaded']
  upload,         \* the last process_master_data call: its file, what it returned, the cache sizes before it
  uploads,        \* how many master uploads were made
  ui,             \* the last "Mulai Proses Data" click: the validator's verdict, the message shown
  results,        \* the last run of the results section: the checkbox, the table stored before it
  summary,        \* what generate_summary returned for the last table it was given
  huruf,          \* huruf_ke_angka called on its own: the label
  angka,          \*   what it returned
  str1,           \* calculate_similarity called on its own: the two texts
  str2,
  skor            \*   the scores returned for (str1, str2), (str2, str1), (str1, str1)

vars == <<USE_RAPIDFUZZ, master_dict, df_v, config, out, df_hasil, recon, last,
          passes, q_name, q_threshold, q_result, normalize_text_cache,
          calculate_similarity_cache, epoch, master_uploaded, upload, uploads,
          ui, results, summary, huruf, angka, str1, str2, skor>>

cacheVars == <<normalize_text_cache, calculate_similarity_cache>>

sessionVars == <<epoch, master_uploaded, upload, uploads>>

labelVars == <<huruf, angka>>

scoreVars == <<str1, str2, skor>>

NoOut == Ended("none", "", FALSE, <<>>)

NoRecon == [before |-> <<>>, master |-> <<>>, perubahan_terjadi |-> FALSE, fuzzy_rows |-> {}]

NoFile == UploadedFile(FALSE, FALSE, <<>>, <<>>)

NoUpload ==
  [file |-> NoFile,
   ret |-> [master_dict |-> <<>>, none |-> TRUE, error |-> "", loaded |-> FALSE,
            df |-> NoFrame, built |-> <<>>, cleared |-> FALSE],
   entries_before |-> 0,
   session_before |-> [master_dict |-> <<>>, master_uploaded |-> FALSE,
                       normalize_text_cache |-> {}, calculate_similarity_cache |-> {}]]

NoUi == [clicked |-> FALSE, is_valid |-> FALSE, shown |-> "", stopped |-> FALSE]

NoResults == [ran |-> FALSE, show_unmatched |-> FALSE, stored |-> <<>>]

NoSummary ==
  [returned |-> FALSE, total_items |-> 0, matched |-> 0, unmatched |-> 0,
   fuzzy_matched |-> 0, exact_matched |-> 0, pln_items |-> 0, tunai_items |-> 0]

NoAngka == [returned |-> FALSE, value |-> 0]

NoSkor == [called |-> FALSE, score |-> ZeroScore]

NoSkors == [ab |-> NoSkor, ba |-> NoSkor, aa |-> NoSkor]

\* nothing was asked of huruf_ke_angka or calculate_similarity, nothing
\* was clicked
Idle ==
  /\ ui = NoUi
  /\ results = NoResults
  /\ summary = NoSummary
  /\ huruf = <<>>
  /\ angka = NoAngka
  /\ str1 = <<>>
  /\ str2 = <<>>
  /\ skor = NoSkors

\* a catalog was uploaded and installed, which cleared the caches
Uploaded ==
  /\ master_dict \in Catalogs
  /\ master_uploaded = TRUE
  /\ epoch = 1
  /\ upload = NoUpload
  /\ uploads = 0
  /\ normalize_text_cache = {}
  /\ calculate_similarity_cache = {}

InitRest ==
  /\ USE_RAPIDFUZZ \in BOOLEAN
  /\ out = NoOut
  /\ df_hasil = <<>>
  /\ recon = NoRecon
  /\ last = "init"
  /\ passes = 0
  /\ q_result = NoneNone

\* a transform followed by edits and reconciliation passes, on the first
\* n rows of the session grid
Init ==
  /\ InitRest
  /\ Uploaded
  /\ Idle
  /\ df_v \in {Grid(6, [k \in 1..n |-> SessionRow(k)]) : n \in 1..MaxRows}
  /\ config = BaseConfig
  /\ q_name = <<>>
  /\ q_threshold = fuzzy_threshold

\* the transform on its own: grids of up to MaxRows rows under the base
\* mapping, and every variant of a mapping on grids of six and three
\* columns and on a missing grid
InitTransform ==
  /\ InitRest
  /\ Uploaded
  /\ Idle
  /\ \/ /\ df_v \in {Grid(6, rows) : rows \in SeqsUpTo(RowPool, MaxRows) \cup {ExampleRows}}
        /\ config = BaseConfig
     \/ /\ df_v \in {Grid(6, <<rY, rfoo>>), NoGrid}
        /\ config \in ConfigVariants(BaseConfig)
     \/ /\ df_v = Grid(3, <<NarrowRow>>)
        /\ config \in ConfigVariants(NarrowConfig) \cup {BaseConfig}
  /\ q_name = <<>>
  /\ q_threshold = fuzzy_threshold

\* fuzzy_match_material on its own
InitMatch ==
  /\ InitRest
  /\ Uploaded
  /\ Idle
  /\ df_v = NoGrid
  /\ config = BaseConfig
  /\ q_name \in QueryNames
  /\ q_threshold \in Thresholds

\* a session from its start (app.py lines 42-47): no catalog yet, the
\* vendor grid and the mapping chosen
InitSession ==
  /\ InitRest
  /\ Idle
  /\ master_dict = <<>>
  /\ master_uploaded = FALSE
  /\ epoch = 0
  /\ upload = NoUpload
  /\ uploads = 0
  /\ normalize_text_cache = {}
  /\ calculate_similarity_cache = {}
  /\ df_v = Grid(6, [k \in 1..MaxRows |-> SessionRow(k)])
  /\ config = BaseConfig
  /\ q_name = <<>>
  /\ q_threshold = fuzzy_threshold

\* huruf_ke_angka on its own
InitLabel ==
  /\ InitRest
  /\ Uploaded
  /\ ui = NoUi
  /\ results = NoResults
  /\ summary = NoSummary
  /\ str1 = <<>>
  /\ str2 = <<>>
  /\ skor = NoSkors
  /\ df_v = NoGrid
  /\ config = BaseConfig
  /\ q_name = <<>>
  /\ q_threshold = fuzzy_threshold
  /\ huruf \in Labels
  /\ angka = NoAngka

\* calculate_similarity on its own
InitScore ==
  /\ InitRest
  /\ Uploaded
  /\ ui = NoUi
  /\ results = NoResults
  /\ summary = NoSummary
  /\ huruf = <<>>
  /\ angka = NoAngka
  /\ df_v = NoGrid
  /\ config = BaseConfig
  /\ q_name = <<>>
  /\ q_threshold = fuzzy_threshold
  /\ str1 \in ScoreTexts
  /\ str2 \in ScoreTexts
  /\ skor = NoSkors

(***************************************************************************)
(* The memo caches (processor.py, lru_cache of lines 61 and 90)            *)
(*                                                                         *)
(* The caches hold 1024 and 2048 entries; the sessions of this model       *)
(* write far fewer, so no entry is evicted.                                *)
(***************************************************************************)
\* the calls fuzzy_match_material(name, master, ...) that get past line 154
active_names(names, master) ==
  IF master = <<>> THEN {} ELSE {n \in names : n # <<>>}

master_keys(master) == {master[i].Nama : i \in 1..Len(master)}

\* the arguments normalize_text is called with: the name (line 158) and,
\* inside calculate_similarity, the name and the key (lines 109-110)
normalized_texts(rf, names, master) ==
  active_names(names, master) \cup
    (IF rf \/ active_names(names, master) = {} THEN {} ELSE master_keys(master))

\* the arguments calculate_similarity is called with (line 182)
scored_pairs(rf, names, master) ==
  IF rf THEN {} ELSE active_names(names, master) \X master_keys(master)

\* a cache that stores the text trimmed, in the letter case it came in
cache_normalize_trimmed(cache, texts, ep) ==
  cache \cup {[text |-> t, val |-> collapse_ws(str_strip(t)), epoch |-> ep] :
                t \in {x \in texts : \A e \in cache : e.text # x}}

\* a call that misses adds an entry, a call that hits leaves the cache alone
cache_normalize(cache, texts, ep) ==
  cache \cup {[text |-> t, val |-> normalize_text(t), epoch |-> ep] :
                t \in {x \in texts : \A e \in cache : e.text # x}}

cache_similarity(rf, cache, pairs, ep) ==
  cache \cup {[str1 |-> p[1], str2 |-> p[2],
               val |-> calculate_similarity(rf, p[1], p[2]), epoch |-> ep] :
                p \in {x \in pairs : \A e \in cache : <<e.str1, e.str2>> # x}}

\* normalize_text(text) as the decorated function answers it
cached_normalize(cache, text) ==
  IF \E e \in cache : e.text = text
    THEN (CHOOSE e \in cache : e.text = text).val
    ELSE normalize_text(text)

\* lines 112-125 on the two normalized forms
similarity_of(rf, s1_norm, s2_norm) ==
  IF s1_norm = <<>> \/ s2_norm = <<>> THEN ZeroScore
  ELSE IF s1_norm = s2_norm THEN OneScore
  ELSE IF rf THEN fuzz_ratio(s1_norm, s2_norm)
  ELSE SequenceMatcher_ratio(s1_norm, s2_norm)

\* calculate_similarity(a, b) answered from the caches as they are: a miss
\* runs the body, whose two normalize_text calls go through their cache
memo_similarity(rf, ncache, scache, a, b) ==
  IF \E e \in scache : e.str1 = a /\ e.str2 = b
    THEN (CHOOSE e \in scache : e.str1 = a /\ e.str2 = b).val
    ELSE similarity_of(rf, cached_normalize(ncache, a), cached_normalize(ncache, b))

\* fuzzy_match_material answered with the caches as they are
fuzzy_match_memo(rf, ncache, scache, material_name, master, threshold) ==
  IF material_name = <<>> \/ master = <<>> THEN NoneNone
  ELSE IF rf
    THEN extractOne(master,
                    Tup([i \in 1..Len(master) |->
                           fuzz_ratio(cached_normalize(ncache, material_name),
                                      master[i].Nama)]),
                    threshold)
    ELSE best_of_loop(master,
                      Tup([i \in 1..Len(master) |->
                             memo_similarity(FALSE, ncache, scache, material_name,
                                             master[i].Nama)]),
                      threshold)

\* calculate_similarity(a, b) as the decorated function answers it: from
\* the cache on a hit
cached_similarity(rf, cache, a, b) ==
  IF \E e \in cache : e.str1 = a /\ e.str2 = b
    THEN (CHOOSE e \in cache : e.str1 = a /\ e.str2 = b).val
    ELSE calculate_similarity(rf, a, b)

\* clear_fuzzy_cache()
clear_fuzzy_cache == <<{}, {}>>

\* what the fuzzy_match_material calls on names leave in the caches
FuzzyCalls(names) ==
  /\ normalize_text_cache' =
       cache_normalize(normalize_text_cache,
                       normalized_texts(USE_RAPIDFUZZ, names, master_dict), epoch)
  /\ calculate_similarity_cache' =
       cache_similarity(USE_RAPIDFUZZ, calculate_similarity_cache,
                        scored_pairs(USE_RAPIDFUZZ, names, master_dict), epoch)

\* the names proses_data_vendor passed to fuzzy_match_material
fuzzy_names(o) ==
  {o.df_filtered[i].nama : i \in {k \in 1..Len(o.df_filtered) : o.df_filtered[k].fuzzy_called}}

\* the names update_material_codes passed to fuzzy_match_material
fuzzy_inputs(edited_df, fuzzy_rows) ==
  {str_strip(edited_df[i].Nama_Material) : i \in fuzzy_rows}

(***************************************************************************)
(* Operations                                                              *)
(***************************************************************************)
\* "Proses Data Master" on an uploaded file (app.py lines 66-77)
\* a click that stores whatever process_master_data returned
installed_master_always(ret, current) == ret.master_dict

\* app.py lines 70-78: session master_dict after the click, current being
\* the one held before it
installed_master(ret, current) == IF ret.error # "" THEN current ELSE ret.master_dict

ProcessMasterData(uploaded_file) ==
  /\ last \in {"init", "upload", "proses", "update"}
  /\ uploads < MaxUploads
  /\ upload' = [file |-> uploaded_file,
                ret |-> process_master_data(uploaded_file),
                entries_before |-> Cardinality(normalize_text_cache)
                                     + Cardinality(calculate_similarity_cache),
                session_before |-> [master_dict |-> master_dict,
                                    master_uploaded |-> master_uploaded,
                                    normalize_text_cache |-> normalize_text_cache,
                                    calculate_similarity_cache |-> calculate_similarity_cache]]
  /\ uploads' = uploads + 1
  /\ normalize_text_cache' =
       IF upload'.ret.cleared THEN clear_fuzzy_cache[1] ELSE normalize_text_cache
  /\ calculate_similarity_cache' =
       IF upload'.ret.cleared THEN clear_fuzzy_cache[2] ELSE calculate_similarity_cache
  /\ master_dict' = installed_master(upload'.ret, master_dict)
  /\ master_uploaded' = IF upload'.ret.error # "" THEN master_uploaded ELSE TRUE
  /\ epoch' = IF upload'.ret.error # "" THEN epoch ELSE epoch + 1
  /\ recon' = NoRecon
  /\ last' = "upload"
  /\ passes' = 0
  /\ UNCHANGED <<USE_RAPIDFUZZ, df_v, config, out, df_hasil, q_name, q_threshold,
                 q_result, ui, results, summary, labelVars, scoreVars>>

\* df_hasil = proses_data_vendor(df_v, master_dict, config)
ProsesDataVendor ==
  /\ last \in {"init", "upload"}
  /\ master_uploaded
  /\ out' = proses_data_vendor(USE_RAPIDFUZZ, df_v, master_dict, config)
  /\ df_hasil' = out'.table
  /\ FuzzyCalls(fuzzy_names(out'))
  /\ last' = "proses"
  /\ passes' = 0
  /\ UNCHANGED <<USE_RAPIDFUZZ, master_dict, df_v, config, recon, q_name,
                 q_threshold, q_result, sessionVars, ui, results, summary, labelVars, scoreVars>>

\* "Mulai Proses Data" (app.py lines 188-225): validate_column_selection,
\* then proses_data_vendor, then the message; st.stop() ends the run, and
\* whatever is raised inside the try block is shown by the handler
btn_stopped(df, cfg) == df.isdf /\ ~validate_column_selection(cfg, df.ncols)

btn_shown(df, cfg, o) ==
  IF ~df.isdf THEN "Processing error"
  ELSE IF ~validate_column_selection(cfg, df.ncols) THEN "Selected column index exceeds file columns"
  ELSE IF o.escaped THEN "Processing error"
  ELSE IF o.table = <<>> THEN "Tidak ada data yang memenuhi kriteria filter"
  ELSE "Berhasil memproses"

BtnProses ==
  /\ last = "init"
  /\ master_uploaded
  /\ out' = IF ~df_v.isdf \/ btn_stopped(df_v, config)
              THEN out
              ELSE proses_data_vendor(USE_RAPIDFUZZ, df_v, master_dict, config)
  /\ ui' = [clicked |-> TRUE,
            is_valid |-> df_v.isdf /\ ~btn_stopped(df_v, config),
            shown |-> btn_shown(df_v, config, out'),
            stopped |-> btn_stopped(df_v, config)]
  /\ df_hasil' = IF out'.table = <<>> THEN df_hasil ELSE out'.table
  /\ FuzzyCalls(fuzzy_names(out'))
  /\ last' = "btn"
  /\ passes' = 0
  /\ UNCHANGED <<USE_RAPIDFUZZ, master_dict, df_v, config, recon, q_name,
                 q_threshold, q_result, sessionVars, results, summary, labelVars,
                 scoreVars>>

\* NUMERIC_COLUMNS (config.py lines 59-65)
NUMERIC_COLUMNS ==
  {"Referensi_Jumlah", "Jumlah_Material_Gudang", "Jumlah_Material_Dipesan",
   "Jumlah_Pasang", "Jumlah_Bongkar"}

\* prepare_dataframe_for_display on one row: a numeric cell that holds 0
\* holds None afterwards (pd.to_numeric(...).replace(0, None))
displayed_row(row) ==
  [row EXCEPT !.none_cells = row.none_cells \cup {col \in NUMERIC_COLUMNS : row[col] = 0}]

prepare_dataframe_for_display(df) == [i \in 1..Len(df) |-> displayed_row(df[i])]

is_unmatched(row) == row.Kode_Material = sDASH

\* app.py lines 249-254: the table handed to st.data_editor
df_vendor_view(stored, show_unmatched) ==
  prepare_dataframe_for_display(
    IF show_unmatched THEN SelectSeq(stored, is_unmatched) ELSE stored)

\* one run of the results section (app.py lines 229-284) in which the
\* user edits nothing: the checkbox is offered when a row has the code
\* '-'; what st.data_editor returns goes through update_material_codes
\* and is stored as df_hasil
ResultsRun(show_unmatched) ==
  /\ last \in {"proses", "results"}
  /\ df_hasil # <<>>
  /\ show_unmatched => \E i \in 1..Len(df_hasil) : is_unmatched(df_hasil[i])
  /\ recon' = [before |-> df_vendor_view(df_hasil, show_unmatched),
               master |-> master_dict,
               perubahan_terjadi |->
                 update_material_codes(USE_RAPIDFUZZ,
                                       df_vendor_view(df_hasil, show_unmatched),
                                       master_dict).perubahan_terjadi,
               fuzzy_rows |->
                 update_material_codes(USE_RAPIDFUZZ,
                                       df_vendor_view(df_hasil, show_unmatched),
                                       master_dict).fuzzy_rows]
  /\ df_hasil' = update_material_codes(USE_RAPIDFUZZ, recon'.before, master_dict).df
  /\ FuzzyCalls(fuzzy_inputs(recon'.before, recon'.fuzzy_rows))
  /\ results' = [ran |-> TRUE, show_unmatched |-> show_unmatched, stored |-> df_hasil]
  /\ last' = "results"
  /\ passes' = 1
  /\ UNCHANGED <<USE_RAPIDFUZZ, master_dict, df_v, config, out, q_name,
                 q_threshold, q_result, sessionVars, ui, summary, labelVars,
                 scoreVars>>

\* generate_summary on the table proses_data_vendor returned
GenerateSummary ==
  /\ last = "proses"
  /\ summary' = generate_summary(out.table)
  /\ last' = "summary"
  /\ UNCHANGED <<USE_RAPIDFUZZ, master_dict, df_v, config, out, df_hasil, recon,
                 passes, q_name, q_threshold, q_result, cacheVars, sessionVars,
                 ui, results, labelVars, scoreVars>>

\* the user types another name into row i of the table (st.data_editor)
EditNamaMaterial(i, nama) ==
  /\ last \in {"proses", "edit", "update"}
  /\ i \in 1..Len(df_hasil)
  /\ df_hasil[i].Nama_Material # nama
  /\ df_hasil' = [df_hasil EXCEPT ![i].Nama_Material = nama]
  /\ recon' = NoRecon
  /\ last' = "edit"
  /\ passes' = 0
  /\ UNCHANGED <<USE_RAPIDFUZZ, master_dict, df_v, config, out, q_name,
                 q_threshold, q_result, cacheVars, sessionVars, ui, results, summary, labelVars,
                 scoreVars>>

\* edited_df, perubahan_terjadi = update_material_codes(edited_df, master_dict);
\* the script runs it again after an upload once a table is held
UpdateMaterialCodes ==
  /\ \/ last \in {"proses", "edit", "update"}
     \/ last = "upload" /\ out # NoOut
  /\ LET r == update_material_codes(USE_RAPIDFUZZ, df_hasil, master_dict)
     IN  /\ df_hasil' = r.df
         /\ recon' = [before |-> df_hasil,
                      master |-> master_dict,
                      perubahan_terjadi |-> r.perubahan_terjadi,
                      fuzzy_rows |-> r.fuzzy_rows]
  /\ FuzzyCalls(fuzzy_inputs(df_hasil, recon'.fuzzy_rows))
  /\ last' = "update"
  /\ passes' = IF passes < 2 THEN passes + 1 ELSE passes
  /\ UNCHANGED <<USE_RAPIDFUZZ, master_dict, df_v, config, out, q_name,
                 q_threshold, q_result, sessionVars, ui, results, summary, labelVars, scoreVars>>

\* fuzzy_match_material(q_name, master_dict, q_threshold)
FuzzyMatchMaterial ==
  /\ last = "init"
  /\ q_result' = fuzzy_match_material(USE_RAPIDFUZZ, q_name, master_dict, q_threshold)
  /\ FuzzyCalls({q_name})
  /\ last' = "match"
  /\ UNCHANGED <<USE_RAPIDFUZZ, master_dict, df_v, config, out, df_hasil, recon,
                 passes, q_name, q_threshold, sessionVars, ui, results, summary, labelVars,
                 scoreVars>>

\* huruf_ke_angka(huruf)
HurufKeAngka ==
  /\ last = "init"
  /\ angka' = [returned |-> TRUE, value |-> huruf_ke_angka(huruf)]
  /\ last' = "huruf"
  /\ UNCHANGED <<USE_RAPIDFUZZ, master_dict, df_v, config, out, df_hasil, recon,
                 passes, q_name, q_threshold, q_result, cacheVars, sessionVars,
                 ui, results, summary, huruf, scoreVars>>

\* one call of calculate_similarity on the two texts, in either order, or
\* on the first text twice
score_args(which, a, b) ==
  IF which = "ab" THEN <<a, b>> ELSE IF which = "ba" THEN <<b, a>> ELSE <<a, a>>

CalculateSimilarity(which) ==
  /\ last \in {"init", "score"}
  /\ ~skor[which].called
  /\ skor' = [skor EXCEPT ![which] =
                [called |-> TRUE,
                 score |-> cached_similarity(USE_RAPIDFUZZ, calculate_similarity_cache,
                                             score_args(which, str1, str2)[1],
                                             score_args(which, str1, str2)[2])]]
  /\ calculate_similarity_cache' =
       cache_similarity(USE_RAPIDFUZZ, calculate_similarity_cache,
                        {score_args(which, str1, str2)}, epoch)
  /\ normalize_text_cache' =
       IF calculate_similarity_cache' = calculate_similarity_cache
         THEN normalize_text_cache
         ELSE cache_normalize(normalize_text_cache,
                              {score_args(which, str1, str2)[1],
                               score_args(which, str1, str2)[2]}, epoch)
  /\ last' = "score"
  /\ UNCHANGED <<USE_RAPIDFUZZ, master_dict, df_v, config, out, df_hasil, recon,
                 passes, q_name, q_threshold, q_result, sessionVars, ui, results, summary,
                 labelVars, str1, str2>>

Next ==
  \/ ProsesDataVendor
  \/ \E i \in 1..MaxRows, nama \in EditNames : EditNamaMaterial(i, nama)
  \/ UpdateMaterialCodes

Spec == Init /\ [][Next]_vars

SpecTransform == InitTransform /\ [][ProsesDataVendor \/ BtnProses]_vars

SpecMatch == InitMatch /\ [][FuzzyMatchMaterial]_vars

\* the transform and the reconciliation passes the script runs on the
\* table it returned
SpecAgree == InitTransform /\ [][ProsesDataVendor \/ UpdateMaterialCodes]_vars

\* the transform and the runs of the results section that follow it
SpecResults ==
  InitTransform /\ [][ProsesDataVendor \/ \E show_unmatched \in BOOLEAN : ResultsRun(show_unmatched)]_vars

\* the transform and the summary of the table it returned
SpecSummary == InitTransform /\ [][ProsesDataVendor \/ GenerateSummary]_vars

\* a session: master uploads, transforms and reconciliation passes
NextSession ==
  \/ \E uploaded_file \in UploadFiles : ProcessMasterData(uploaded_file)
  \/ ProsesDataVendor
  \/ UpdateMaterialCodes

SpecSession == InitSession /\ [][NextSession]_vars

SpecLabel == InitLabel /\ [][HurufKeAngka]_vars

SpecScore ==
  InitScore /\ [][\E which \in {"ab", "ba", "aa"} : CalculateSimilarity(which)]_vars

(***************************************************************************)
(* Properties                                                              *)
(***************************************************************************)
\* the mapping names all six columns at offsets inside the grid
ValidMapping ==
  /\ df_v.isdf
  /\ ColumnKeys \subseteq DOMAIN config
  /\ \A key \in ColumnKeys : config[key].val \in 0..(df_v.ncols - 1)

\* C1: two-tier resolution order. In the transform and in the
\* reconciliation pass, a row whose (trimmed) name is itself a catalog key
\* has that key's own code and type, fuzzy_match_material was not called for
\* it, and the transform recorded no Match Score / Matched With for it.
TwoTierOrder ==
  /\ \A i \in 1..Len(out.df_filtered) :
       HasKey(master_dict, out.df_filtered[i].nama) =>
         /\ out.df_filtered[i].Kode_Material = Entry(master_dict, out.df_filtered[i].nama).Kode
         /\ out.df_filtered[i].Tipe_Material = Entry(master_dict, out.df_filtered[i].nama).Tipe
         /\ ~out.df_filtered[i].fuzzy_called
         /\ out.df_filtered[i].Match_Score.none
         /\ out.df_filtered[i].Matched_With.none
  /\ last = "update" =>
       \A i \in 1..Len(df_hasil) :
         HasKey(master_dict, str_strip(df_hasil[i].Nama_Material)) =>
           /\ df_hasil[i].Kode_Material =
                Entry(master_dict, str_strip(df_hasil[i].Nama_Material)).Kode
           /\ df_hasil[i].Tipe_Material =
                Entry(master_dict, str_strip(df_hasil[i].Nama_Material)).Tipe
           /\ i \notin recon.fuzzy_rows

\* C1 happens: the catalog holds the keys FOO and foo, which score 1.0
\* against each other; the transform resolved a row named FOO to K1, a user
\* renamed a row " foo " and the pass gave it K2, the code of the key foo
TwoTierOrderWitness ==
  /\ last = "update"
  /\ HasKey(master_dict, sFOO) /\ HasKey(master_dict, sfoo)
  /\ ScoreEQ(calculate_similarity(USE_RAPIDFUZZ, sfoo, sFOO), OneScore)
  /\ \E i \in 1..Len(out.df_filtered) :
       out.df_filtered[i].nama = sFOO /\ out.df_filtered[i].Kode_Material = sK1
  /\ \E i \in 1..Len(df_hasil) :
       /\ df_hasil[i].Nama_Material = sfoo_padded
       /\ recon.before[i].Kode_Material # sK2
       /\ df_hasil[i].Kode_Material = sK2

\* C2: row filter. With a valid mapping, the returned rows are exactly, in
\* order, the grid rows whose coerced total is > 0, whose trimmed name is
\* not "nan" in any letter case, and whose name does not contain "TOTAL" in
\* any letter case; the example grid keeps exactly Y and Z.
RowFilter ==
  (last = "proses" /\ ValidMapping) =>
    LET name(r) == str_strip(cell_str(r[config["c_uraian"].val + 1]))
        total(r) == to_numeric_fillna(r[config["c_total"].val + 1])
        has_total(n) ==
          \E i \in 0..(Len(n) - 5) : \A k \in 1..5 : upper_c(n[i + k]) = sTOTAL[k]
        keep(r) == total(r) > 0 /\ str_lower(name(r)) # sNAN /\ ~has_total(name(r))
        kept == SelectSeq(df_v.rows, keep)
    IN  /\ Len(out.table) = Len(kept)
        /\ \A i \in 1..Len(kept) :
             /\ out.table[i].Nama_Material = name(kept[i])
             /\ out.table[i].Jumlah_Pasang =
                  to_numeric_fillna(kept[i][config["c_psg"].val + 1])
             /\ out.table[i].Jumlah_Bongkar =
                  to_numeric_fillna(kept[i][config["c_bkr"].val + 1])
        /\ (df_v.rows = ExampleRows /\ config = BaseConfig) =>
             [i \in 1..Len(out.table) |-> out.table[i].Nama_Material] = <<sY, sZ>>

\* C2 happens: the example grid was transformed and two of its four rows
\* were dropped
RowFilterWitness ==
  /\ last = "proses"
  /\ ValidMapping
  /\ df_v.rows = ExampleRows
  /\ Len(out.table) = 2

\* C3: PLN/Tunai exclusivity. In every returned row the warehouse quantity
\* is vol_mat and the ordered quantity 0 when the trimmed upper-cased unit
\* is "PLN", and the other way round otherwise; never both nonzero, both
\* zero only when vol_mat is 0.
PlnTunaiExclusive ==
  /\ Len(out.table) = Len(out.df_filtered)
  /\ \A i \in 1..Len(out.table) :
       /\ IF out.df_filtered[i].satuan = sPLN
            THEN /\ out.table[i].Jumlah_Material_Gudang = out.df_filtered[i].vol_mat
                 /\ out.table[i].Jumlah_Material_Dipesan = 0
            ELSE /\ out.table[i].Jumlah_Material_Dipesan = out.df_filtered[i].vol_mat
                 /\ out.table[i].Jumlah_Material_Gudang = 0
       /\ ~(out.table[i].Jumlah_Material_Gudang # 0 /\ out.table[i].Jumlah_Material_Dipesan # 0)
       /\ (out.table[i].Jumlah_Material_Gudang = 0 /\ out.table[i].Jumlah_Material_Dipesan = 0)
            => out.df_filtered[i].vol_mat = 0

\* C3 happens: a returned table with a PLN row (unit typed " pln ") and a
\* Tunai row, each with a nonzero quantity
PlnTunaiWitness ==
  /\ last = "proses"
  /\ \E i, j \in 1..Len(out.table) :
       /\ out.df_filtered[i].satuan = sPLN
       /\ out.table[i].Jumlah_Material_Gudang = 10
       /\ out.df_filtered[j].satuan # sPLN
       /\ out.table[j].Jumlah_Material_Dipesan = 3

\* C4: validation precedes every column read. No column is read at an
\* offset outside 0..column_count-1, and a mapping with any out-of-range
\* offset never reaches the projection (no column read is attempted).
ValidationPrecedesReads ==
  /\ \A i \in 1..Len(out.reads) : out.reads[i].off \in 0..(df_v.ncols - 1)
  /\ (\E key \in DOMAIN config : config[key].val \notin 0..(df_v.ncols - 1))
       => out.reads = <<>>

\* C5: totality. proses_data_vendor returns a table and nothing escapes to
\* its caller; when the mapping fails validation or a step raises, the
\* returned table is empty.
Totality ==
  /\ ~out.escaped
  /\ last = "proses" => out.stage \in {"shape", "invalid", "extract", "project", "filter", "done"}
  /\ (out.stage = "invalid" \/ out.exc # "") => (out.table = <<>> /\ df_hasil = <<>>)

\* C5 happens: a column read raised inside the transform and the caller got
\* an empty table
TotalityWitness ==
  /\ last = "proses"
  /\ out.exc = "IndexError"
  /\ out.reads # <<>>
  /\ df_hasil = <<>>

\* C6: reconciliation idempotence. A pass run on the table the previous
\* pass returned, with no edit in between, reports no change and returns
\* the table as it was given.
ReconcileIdempotent ==
  passes = 2 => (~recon.perubahan_terjadi /\ df_hasil = recon.before)

\* C6 happens: two passes in a row on a table whose codes the
\* reconciliation had changed from what the transform returned
ReconcileIdempotentWitness ==
  /\ passes = 2
  /\ last = "update"
  /\ \E i \in 1..Len(df_hasil) :
       df_hasil[i].Kode_Material # out.table[i].Kode_Material

\* C7 as amended: after a pass, every row whose trimmed name is neither
\* empty nor "nan" in any letter case has the (code, type) that the
\* transform's two-tier lookup gives its current trimmed name; every other
\* row is as it was given; and the flag is true exactly when one of the
\* resolved rows held a different (code, type) before the pass.
ReconcileResult ==
  last = "update" =>
    LET trimmed(row) == str_strip(row.Nama_Material)
        skipped(row) == trimmed(row) = <<>> \/ str_lower(trimmed(row)) = sNAN
        resolved(row) == lookup_with_fuzzy(USE_RAPIDFUZZ, master_dict, trimmed(row))
        stale(row) == \/ row.Kode_Material # resolved(row).Kode
                      \/ row.Tipe_Material # resolved(row).Tipe
    IN  /\ Len(df_hasil) = Len(recon.before)
        /\ \A i \in 1..Len(df_hasil) :
             IF skipped(recon.before[i])
               THEN df_hasil[i] = recon.before[i]
               ELSE /\ ~stale(df_hasil[i])
                    /\ df_hasil[i] =
                         [recon.before[i] EXCEPT
                            !.Kode_Material = resolved(recon.before[i]).Kode,
                            !.Tipe_Material = resolved(recon.before[i]).Tipe]
        /\ recon.perubahan_terjadi <=>
             \E i \in 1..Len(recon.before) :
               ~skipped(recon.before[i]) /\ stale(recon.before[i])

\* C7 happens: a row renamed "NaN" kept its code through a pass that
\* rewrote another row
ReconcileResultWitness ==
  /\ last = "update"
  /\ recon.perubahan_terjadi
  /\ \E i \in 1..Len(df_hasil) :
       /\ df_hasil[i].Nama_Material = sNaN_mixed
       /\ df_hasil[i].Kode_Material # sDASH

\* C7 as stated: after a pass, every row whose trimmed name is neither
\* empty nor "nan" has the two-tier resolution of its current name, and the
\* flag is true exactly when such a row held a (code, type) different from
\* its resolution before the pass.
ReconcileResultAsStated ==
  last = "update" =>
    LET trimmed(row) == str_strip(row.Nama_Material)
        resolved(row) == lookup_with_fuzzy(USE_RAPIDFUZZ, master_dict, trimmed(row))
        stale(row) == \/ row.Kode_Material # resolved(row).Kode
                      \/ row.Tipe_Material # resolved(row).Tipe
        named(row) == trimmed(row) # <<>> /\ trimmed(row) # sNAN
    IN  /\ \A i \in 1..Len(df_hasil) : named(df_hasil[i]) => ~stale(df_hasil[i])
        /\ recon.perubahan_terjadi <=>
             \E i \in 1..Len(recon.before) :
               named(recon.before[i]) /\ stale(recon.before[i])

\* C8: best_match. For a non-empty catalog, with score(key) the similarity
\* of the normalized query and the normalized key, the call returns a key of
\* maximal score with that score when the maximum is >= threshold, and
\* (None, None) when it is below, on the rapidfuzz and on the difflib path.
BestMatchContract ==
  (last = "match" /\ master_dict # <<>>) =>
    LET score(i) == calculate_similarity(USE_RAPIDFUZZ, q_name, master_dict[i].Nama)
        best == CHOOSE i \in 1..Len(master_dict) :
                  \A j \in 1..Len(master_dict) : ScoreGE(score(i), score(j))
    IN  IF ScoreGE(score(best), q_threshold)
          THEN /\ ~q_result.name_none
               /\ ~q_result.score_none
               /\ HasKey(master_dict, q_result.name)
               /\ ScoreEQ(score(KeyIndex(master_dict, q_result.name)), score(best))
               /\ ScoreEQ(q_result.score, score(best))
          ELSE q_result = NoneNone

\* C9: approximate-match provenance. A surviving row whose name is not a
\* key but scores >= 0.8 against a key gives exactly one row with the code
\* and type of such a key and with Match Score and Matched With present;
\* the two are present exactly on the rows matched approximately.
ApproximateProvenance ==
  /\ Len(out.table) = Len(out.df_filtered)
  /\ \A i \in 1..Len(out.df_filtered) :
       LET f == out.df_filtered[i]
           close == {k \in 1..Len(master_dict) :
                       ScoreGE(calculate_similarity(USE_RAPIDFUZZ, f.nama, master_dict[k].Nama),
                               fuzzy_threshold)}
           approximate == ~HasKey(master_dict, f.nama) /\ close # {}
       IN  /\ approximate =>
                \E k \in close :
                  /\ out.table[i].Kode_Material = master_dict[k].Kode
                  /\ out.table[i].Tipe_Material = master_dict[k].Tipe
           /\ approximate <=> ~f.Match_Score.none
           /\ approximate <=> ~f.Matched_With.none

\* C10: no-match sentinel. A returned row has the code '-' exactly when its
\* name resolved to no catalog entry (no exact key and no best match); such
\* a row has the type '-' and no Match Score, and a row that resolved to an
\* entry has a code other than '-'.
NoMatchSentinel ==
  \A i \in 1..Len(out.table) :
    LET f == out.df_filtered[i]
        unresolved ==
          /\ ~HasKey(master_dict, f.nama)
          /\ fuzzy_match_material(USE_RAPIDFUZZ, f.nama, master_dict, fuzzy_threshold).name_none
    IN  /\ (out.table[i].Kode_Material = sDASH) <=> unresolved
        /\ unresolved => (out.table[i].Tipe_Material = sDASH /\ f.Match_Score.none)

\* C11: in a session of master uploads, transforms and reconciliation
\* passes, both memo caches are empty right after every upload that built
\* and installed a catalog, so before the first transform or reconciliation
\* under it, and no cache ever holds an entry written under an earlier
\* catalog.
CacheInvalidation ==
  /\ (last = "upload" /\ ~upload.ret.none) =>
       (normalize_text_cache = {} /\ calculate_similarity_cache = {})
  /\ \A e \in normalize_text_cache : e.epoch = epoch
  /\ \A e \in calculate_similarity_cache : e.epoch = epoch

\* a second catalog was installed while the caches held entries
CacheInvalidationWitness ==
  /\ last = "upload"
  /\ ~upload.ret.none
  /\ epoch = 2
  /\ upload.entries_before > 0
  /\ normalize_text_cache = {}
  /\ calculate_similarity_cache = {}

\* the trimmed name of a master record, and the text stored for a code or
\* type cell
TrimmedName(record) == str_strip(cell_str(record.Nama))

StoredText(cell) == IF notna(cell) THEN str_strip(cell_str(cell)) ELSE sDASH

\* the catalog load_master_from_dataframe returned for the records of the
\* last upload, when it read them without raising
BuiltFrom(records, built, Kept(_)) ==
  /\ {built[k].Nama : k \in 1..Len(built)}
       = {TrimmedName(records[i]) : i \in {j \in 1..Len(records) : Kept(records[j])}}
  /\ \A k \in 1..Len(built) : built[k].Nama # <<>>
  /\ \A k, l \in 1..Len(built) : built[k].Nama = built[l].Nama => k = l
  /\ \A k \in 1..Len(built) :
       \E i \in 1..Len(records) :
         /\ TrimmedName(records[i]) = built[k].Nama
         /\ \A j \in (i + 1)..Len(records) : TrimmedName(records[j]) # built[k].Nama
         /\ built[k].Kode = StoredText(records[i].Kode)
         /\ built[k].Tipe = StoredText(records[i].Tipe)

KeptAnyCase(record) ==
  TrimmedName(record) # <<>> /\ str_lower(TrimmedName(record)) # sNAN

KeptAsStated(record) ==
  TrimmedName(record) # <<>> /\ TrimmedName(record) # sNAN

BuildReturned ==
  last = "upload" /\ upload.ret.loaded /\ ~build_raises(upload.ret.df)

\* C12: the catalog built from a table of records has as its keys exactly
\* the trimmed names that are non-empty and are not "nan" in any letter
\* case; every key is non-empty and occurs once, and a key holds the code
\* and type of the last record that carries its name.
CatalogBuild ==
  BuildReturned => BuiltFrom(upload.ret.df.rows, upload.ret.built, KeptAnyCase)

\* a catalog built from records among which one is named "NAN" in
\* capitals and two carry the same trimmed name
CatalogBuildWitness ==
  /\ BuildReturned
  /\ Len(upload.ret.built) >= 2
  /\ \E i \in 1..Len(upload.ret.df.rows) :
       /\ TrimmedName(upload.ret.df.rows[i]) # sNAN
       /\ str_lower(TrimmedName(upload.ret.df.rows[i])) = sNAN
  /\ \E i, j \in 1..Len(upload.ret.df.rows) :
       /\ i < j
       /\ KeptAnyCase(upload.ret.df.rows[i])
       /\ TrimmedName(upload.ret.df.rows[i]) = TrimmedName(upload.ret.df.rows[j])
       /\ StoredText(upload.ret.df.rows[i].Kode) # StoredText(upload.ret.df.rows[j].Kode)

\* C12 as stated: only the name that is literally "nan" is left out
CatalogBuildAsStated ==
  BuildReturned => BuiltFrom(upload.ret.df.rows, upload.ret.built, KeptAsStated)

\* no record of the table read is kept, or reading a record raises
NothingBuilt(df_master) ==
  \/ build_raises(df_master)
  \/ \A i \in 1..Len(df_master.rows) : ~KeptAnyCase(df_master.rows[i])

\* C13: when the table read from the upload has no record to keep, or
\* reading its records raises, load_master_from_dataframe returns the
\* empty index and process_master_data returns no catalog and the error
\* "Database Master Material kosong atau tidak valid"; an upload that
\* could not be read or lacks a required column returns no catalog and
\* another error text.
EmptyCatalogIsLoadError ==
  last = "upload" =>
    /\ (upload.ret.loaded /\ NothingBuilt(upload.ret.df)) =>
         (upload.ret.built = <<>> /\ upload.ret.none /\ upload.ret.error = eKosong)
    /\ ~upload.ret.loaded =>
         (upload.ret.none /\ upload.ret.error \in {eCSV, eLoading, eMissing}
                          /\ upload.ret.error # eKosong)
    /\ (upload.ret.error = eKosong) => (upload.ret.loaded /\ NothingBuilt(upload.ret.df))

\* an upload whose table was read, has records, and keeps none of them
EmptyCatalogWitness ==
  /\ last = "upload"
  /\ upload.ret.loaded
  /\ upload.ret.df.rows # <<>>
  /\ ~build_raises(upload.ret.df)
  /\ upload.ret.built = <<>>
  /\ upload.ret.error = eKosong

\* the place of a capital letter in the alphabet, 1..26
LetterRank(c) == CHOOSE k \in 1..26 : UPPER[k] = c

\* the value of a word of capital letters read as a bijective base-26
\* numeral, from place i on
RECURSIVE PlaceSum(_, _)
PlaceSum(word, i) ==
  IF i > Len(word) THEN 0
  ELSE LetterRank(word[i]) * 26 ^ (Len(word) - i) + PlaceSum(word, i + 1)

\* the label once trimmed and put in capitals
LabelWord(label) == str_upper(str_strip(label))

IsLetterWord(word) ==
  word # <<>> /\ \A i \in 1..Len(word) : \E k \in 1..26 : UPPER[k] = word[i]

\* C14: for a label of one or more letters, in any letter case and between
\* white space, huruf_ke_angka returns the bijective base-26 value of the
\* label minus one; the label that is the i-th of KOLOM_OPTIONS gives
\* offset i - 1, so the 52 options map one-to-one onto 0..51.
LabelToOffset ==
  (last = "huruf" /\ IsLetterWord(LabelWord(huruf))) =>
    /\ angka.returned
    /\ angka.value = PlaceSum(LabelWord(huruf), 1) - 1
    /\ \A i \in 1..Len(KOLOM_OPTIONS) :
         (LabelWord(huruf) = KOLOM_OPTIONS[i]) <=> (angka.value = i - 1)

\* the label az in small letters gave offset 51
LabelToOffsetWitness ==
  /\ last = "huruf"
  /\ huruf = <<"a", "z">>
  /\ angka.returned
  /\ angka.value = 51

\* C15: for a label that is empty once trimmed, or holds a character that
\* is no letter, huruf_ke_angka returns no offset.
LabelRejection ==
  (last = "huruf" /\ ~IsLetterWord(LabelWord(huruf))) => ~angka.returned

\* the calls of calculate_similarity made so far
ScoreCalls == {which \in {"ab", "ba", "aa"} : skor[which].called}

\* a score lies in [0, 1], is 0 when an argument normalizes to the empty
\* string, and is 1 when the normalized forms are equal and not empty
ScoreRange(a, b, score) ==
  /\ ScoreGE(score, ZeroScore)
  /\ ScoreGE(OneScore, score)
  /\ (normalize_text(a) = <<>> \/ normalize_text(b) = <<>>) => score = ZeroScore
  /\ (normalize_text(a) # <<>> /\ normalize_text(a) = normalize_text(b)) => score = OneScore

\* C16: calculate_similarity(a, b) lies in [0, 1]; it is 0 whenever an
\* input normalizes to the empty string; it is exactly 1 whenever the two
\* normalized forms are equal and not empty; score(a, a) is 1 for every a
\* whose normalized form is not empty, and 0 for any other a.
ScoreBounds ==
  /\ \A which \in ScoreCalls :
       ScoreRange(score_args(which, str1, str2)[1], score_args(which, str1, str2)[2],
                  skor[which].score)
  /\ skor.aa.called =>
       (skor.aa.score = IF normalize_text(str1) # <<>> THEN OneScore ELSE ZeroScore)

\* the scores of a pair that differs once normalized, of the pair the
\* other way round and of a text with itself were all returned
ScoreBoundsWitness ==
  /\ ScoreCalls = {"ab", "ba", "aa"}
  /\ normalize_text(str1) # <<>>
  /\ normalize_text(str2) # <<>>
  /\ normalize_text(str1) # normalize_text(str2)
  /\ ScoreGT(skor.ab.score, ZeroScore)
  /\ ScoreGT(OneScore, skor.ab.score)
  /\ skor.aa.score = OneScore

\* C16 as stated: score(a, a) is 1 for every a that is not the empty
\* string
ScoreBoundsAsStated ==
  /\ \A which \in ScoreCalls :
       ScoreRange(score_args(which, str1, str2)[1], score_args(which, str1, str2)[2],
                  skor[which].score)
  /\ (skor.aa.called /\ str1 # <<>>) => skor.aa.score = OneScore

\* C17: calculate_similarity(a, b) = calculate_similarity(b, a), with or
\* without rapidfuzz, whichever of the two calls was made first.
ScoreSymmetry ==
  (skor.ab.called /\ skor.ba.called) => ScoreEQ(skor.ab.score, skor.ba.score)

\* what a caller of proses_data_vendor gets: the table returned, and
\* whether an exception reached it
ReturnedValue(o) == [table |-> o.table, raised |-> o.escaped]

\* a transform under a valid mapping of a grid whose one row is a total
\* row, which the filter drops
ZeroRowsRun ==
  proses_data_vendor(USE_RAPIDFUZZ, Grid(6, <<rTOTAL>>), master_dict, BaseConfig)

\* C18: what proses_data_vendor returns for a mapping that validate_config
\* rejects differs from what it returns for a valid mapping when no row
\* passes the filter.
EmptyResultDistinct ==
  (last = "proses" /\ out.stage = "invalid" /\ ZeroRowsRun.stage = "filter") =>
    ReturnedValue(out) # ReturnedValue(ZeroRowsRun)

\* the places of the grid rows that pass the filter, and the k-th of them
Survivors ==
  {i \in 1..Len(df_v.rows) : mask_valid(work_row(df_v.rows[i], config, df_v.ncols))}

Survivor(k) ==
  CHOOSE i \in Survivors : Cardinality({j \in Survivors : j <= i}) = k

\* C19: with a valid mapping the returned table has one row per grid row
\* that passes the filter, the k-th returned row coming from the k-th such
\* grid row; it has Referensi Jumlah 1 and carries that row's trimmed name,
\* its vol_psg as Jumlah Pasang and its vol_bkr as Jumlah Bongkar.
OrderAndReference ==
  (last = "proses" /\ ValidMapping) =>
    /\ Len(out.table) = Cardinality(Survivors)
    /\ \A k \in 1..Len(out.table) :
         /\ out.table[k].Referensi_Jumlah = 1
         /\ out.table[k].Nama_Material =
              work_row(df_v.rows[Survivor(k)], config, df_v.ncols).nama
         /\ out.table[k].Jumlah_Pasang =
              work_row(df_v.rows[Survivor(k)], config, df_v.ncols).vol_psg
         /\ out.table[k].Jumlah_Bongkar =
              work_row(df_v.rows[Survivor(k)], config, df_v.ncols).vol_bkr

\* the second and fourth row of the example grid were returned, in that
\* order, each with Referensi Jumlah 1
OrderAndReferenceWitness ==
  /\ last = "proses"
  /\ ValidMapping
  /\ df_v.rows = ExampleRows
  /\ Survivors = {2, 4}
  /\ Len(out.table) = 2
  /\ out.table[1].Nama_Material = sY
  /\ out.table[2].Nama_Material = sZ
  /\ out.table[1].Referensi_Jumlah = 1
  /\ out.table[1].Jumlah_Pasang = 2
  /\ out.table[2].Jumlah_Bongkar = 1

\* the greatest offset of the mapping lies beyond the last column
MaxExceeded ==
  MaxOf({config[key].val : key \in DOMAIN config}) > df_v.ncols - 1

\* C20: on every mapping and grid, validate_config (whose verdict the
\* transform acted on) and validate_column_selection (whose verdict the
\* click acted on) each report failure exactly when the greatest offset
\* of the mapping exceeds the column count minus one, and the two give
\* the same verdict.
MappingValidation ==
  /\ (last = "proses" /\ df_v.isdf) =>
       /\ out.is_valid <=> ~MaxExceeded
       /\ out.is_valid <=> validate_column_selection(config, df_v.ncols)
  /\ (last = "btn" /\ df_v.isdf) =>
       /\ ui.is_valid <=> ~MaxExceeded
       /\ ui.is_valid <=> validate_config(config, df_v.ncols)

\* a cell that holds no number: missing, or a text that is not one
NonNumeric(cell) == cell.kind = "nan" \/ (cell.kind = "str" /\ ~is_digits(cell.s))

\* the cell of grid row i under a key of the mapping
GridCell(i, key) == df_v.rows[i][config[key].val + 1]

\* the table the transform returns for grid row i alone
AloneTable(i) ==
  proses_data_vendor(USE_RAPIDFUZZ, Grid(df_v.ncols, <<df_v.rows[i]>>),
                     master_dict, config).table

\* C21: with a valid mapping the transform ends without raising whatever
\* the volume and total cells hold; a row with a total cell that holds no
\* number is dropped as a total of 0; a row that passes the filter is
\* returned with 0 in the quantities whose cell holds no number, and every
\* returned row is the row the transform returns for its grid row alone.
FailSoftCoercion ==
  (last = "proses" /\ ValidMapping) =>
    /\ out.exc = ""
    /\ out.stage \in {"filter", "done"}
    /\ \A i \in 1..Len(df_v.rows) : NonNumeric(GridCell(i, "c_total")) => i \notin Survivors
    /\ Len(out.table) = Cardinality(Survivors)
    /\ \A k \in 1..Len(out.table) :
         /\ NonNumeric(GridCell(Survivor(k), "c_mat")) =>
              /\ out.table[k].Jumlah_Material_Gudang = 0
              /\ out.table[k].Jumlah_Material_Dipesan = 0
         /\ NonNumeric(GridCell(Survivor(k), "c_psg")) => out.table[k].Jumlah_Pasang = 0
         /\ NonNumeric(GridCell(Survivor(k), "c_bkr")) => out.table[k].Jumlah_Bongkar = 0
         /\ <<out.table[k]>> = AloneTable(Survivor(k))

\* a grid of a row without a numeric volume and a well-formed row: both
\* were returned, the first with 0 in every quantity
FailSoftCoercionWitness ==
  /\ last = "proses"
  /\ ValidMapping
  /\ df_v.rows = <<rVolumes, rY>>
  /\ Len(out.table) = 2
  /\ out.table[1].Jumlah_Pasang = 0
  /\ out.table[1].Jumlah_Bongkar = 0
  /\ out.table[1].Jumlah_Material_Gudang = 0
  /\ out.table[2].Jumlah_Pasang = 2

\* a row whose trimmed name is empty or "nan" in any letter case
Nameless(row) ==
  str_strip(row.Nama_Material) = <<>> \/ str_lower(str_strip(row.Nama_Material)) = sNAN

\* two rows that agree on every field but the code and the type
SameButCodes(before, after) ==
  [after EXCEPT !.Kode_Material = before.Kode_Material,
                !.Tipe_Material = before.Tipe_Material] = before

\* C22: update_material_codes returns as many rows as it was given, in the
\* same order; a row whose trimmed name is empty or "nan" in any letter
\* case is returned as it was, and the flag is set only when a row with
\* another name got a new code or type; on every row the name, Referensi
\* Jumlah and the four quantities are as before; the catalog is as before.
ReconcileFrame ==
  last = "update" =>
    /\ Len(df_hasil) = Len(recon.before)
    /\ \A i \in 1..Len(recon.before) :
         /\ SameButCodes(recon.before[i], df_hasil[i])
         /\ Nameless(recon.before[i]) => df_hasil[i] = recon.before[i]
    /\ recon.perubahan_terjadi =>
         \E i \in 1..Len(recon.before) :
           ~Nameless(recon.before[i]) /\ df_hasil[i] # recon.before[i]
    /\ master_dict = recon.master

\* a pass was given one row named "NaN" that holds a code and one row
\* with a padded name: it returned the first as it was and gave the
\* second a new code
ReconcileFrameWitness ==
  /\ last = "update"
  /\ recon.perubahan_terjadi
  /\ \E i, j \in 1..Len(recon.before) :
       /\ recon.before[i].Nama_Material = sNaN_mixed
       /\ recon.before[i].Kode_Material # sDASH
       /\ df_hasil[i] = recon.before[i]
       /\ recon.before[j].Nama_Material = sfoo_padded
       /\ df_hasil[j].Kode_Material # recon.before[j].Kode_Material
       /\ df_hasil[j].Nama_Material = sfoo_padded

\* the names the next transform or reconciliation pass would look up
LookupNames ==
  {str_strip(df_hasil[i].Nama_Material) : i \in 1..Len(df_hasil)}
    \cup {str_strip(cell_str(df_v.rows[i][1])) : i \in 1..Len(df_v.rows)}

PassOnReturnedTable ==
  /\ last = "update"
  /\ passes = 1
  /\ ValidMapping
  /\ recon.before = out.table
  /\ recon.master = master_dict

\* C24: update_material_codes run with the same catalog on the table
\* proses_data_vendor just returned, with no edit in between, returns
\* perubahan_terjadi = False and the table as the transform set it.
TransformReconcileAgree ==
  PassOnReturnedTable => (~recon.perubahan_terjadi /\ df_hasil = out.table)

\* the pass ran on a returned table that holds a row matched
\* approximately and a row without a match, and changed neither
TransformReconcileAgreeWitness ==
  /\ PassOnReturnedTable
  /\ ~recon.perubahan_terjadi
  /\ \E i, j \in 1..Len(df_hasil) :
       /\ i \in recon.fuzzy_rows
       /\ df_hasil[i].Kode_Material # sDASH
       /\ j \in recon.fuzzy_rows
       /\ df_hasil[j].Kode_Material = sDASH

\* the names of the rows of a table, in order
NamesOf(table) == [i \in 1..Len(table) |-> table[i].Nama_Material]

\* C25: a run of the results section in which the user deletes no row
\* stores a table with the rows that were stored before it, whether or not
\* the unmatched-only view was shown; a row with a code other than '-' is
\* still stored after the run.
StoredTableKept ==
  last = "results" =>
    /\ NamesOf(df_hasil) = NamesOf(results.stored)
    /\ \A i \in 1..Len(results.stored) :
         ~is_unmatched(results.stored[i]) =>
           \E j \in 1..Len(df_hasil) :
             /\ df_hasil[j].Nama_Material = results.stored[i].Nama_Material
             /\ df_hasil[j].Kode_Material = results.stored[i].Kode_Material

\* the last step was a master upload that returned an error
UploadFailed == last = "upload" /\ upload.ret.error # ""

\* C26: whenever master_uploaded is set, session master_dict is a catalog
\* with at least one entry; right after a master upload that failed,
\* master_dict, master_uploaded and both memo caches are what they were
\* before it; and a transform has run only with master_uploaded set.
MasterSessionState ==
  /\ master_uploaded => Len(master_dict) > 0
  /\ UploadFailed =>
       /\ master_dict = upload.session_before.master_dict
       /\ master_uploaded = upload.session_before.master_uploaded
       /\ normalize_text_cache = upload.session_before.normalize_text_cache
       /\ calculate_similarity_cache = upload.session_before.calculate_similarity_cache
  /\ out # NoOut => master_uploaded

\* an upload failed while a catalog was installed and the caches held
\* entries written by a transform
MasterSessionStateWitness ==
  /\ UploadFailed
  /\ upload.session_before.master_uploaded
  /\ Len(master_dict) > 0
  /\ out # NoOut
  /\ normalize_text_cache # {}
  /\ calculate_similarity_cache # {}

\* the rows of the last transform that were matched approximately
ApproximateRows ==
  {i \in 1..Len(out.df_filtered) : ~out.df_filtered[i].Match_Score.none}

\* C27: the summary of a result table partitions it: total_items = matched
\* + unmatched, matched = exact_matched + fuzzy_matched, no count is
\* negative, pln_items + tunai_items <= total_items, fuzzy_matched is the
\* number of rows matched approximately, and every count of an empty table
\* is 0.
SummaryPartition ==
  last = "summary" =>
    /\ summary.total_items = summary.matched + summary.unmatched
    /\ summary.matched = summary.exact_matched + summary.fuzzy_matched
    /\ \A count \in {"total_items", "matched", "unmatched", "fuzzy_matched",
                     "exact_matched", "pln_items", "tunai_items"} :
         summary[count] >= 0
    /\ summary.pln_items + summary.tunai_items <= summary.total_items
    /\ summary.fuzzy_matched = Cardinality(ApproximateRows)
    /\ out.table = <<>> => summary = [NoSummary EXCEPT !.returned = TRUE]

=============================================================================
